---- MODULE Spec2Model ----
(***************************************************************************)
(* GrafanaConnect backend (pkg/plugin, pkg/models): the query router of    *)
(* datasource.go, the Prometheus handler of prometheus.go, the Loki        *)
(* handler of loki.go and the REST handler of restapi.go.                  *)
(*                                                                         *)
(* Conventions of the model                                                *)
(*   - a query's instants (TimeRange.From, TimeRange.To) and durations    *)
(*     (Interval) are integers in milliseconds; a time.Time built by the   *)
(*     code is a record [kind, sec, nsec]: time.Unix(sec, nsec), the zero  *)
(*     time.Time, or the instant time.Now() returns;                       *)
(*   - a float64 is an integer in tenths (25 is 2.5);                      *)
(*   - a string that the code concatenates or trims is a sequence of       *)
(*     chunks (<<>> is ""), a string it only compares or forwards is a     *)
(*     TLA+ string;                                                        *)
(*   - a JSON value decoded into interface{} is a record [k, n, s]: k its  *)
(*     dynamic type, n its number (tenths), s its string;                  *)
(*   - a Go map[string]string is a function from its key set.              *)
(***************************************************************************)
EXTENDS Integers, Sequences, FiniteSets, TLC

VARIABLES
    config,     \* Datasource.config: the instance's DataSourceConfig
    pc,         \* position of QueryData: idle, running, returned, panicked
    queries,    \* req.Queries of the running QueryData call
    idx,        \* index of the query the loop of QueryData handles next
    responses,  \* response.Responses: RefID -> DataResponse
    requests,   \* every HTTP request handed to client.Do, in order
    calls,      \* per query handled: the handler handleQuery reached, the
                \* upstream's answer and the DataResponse (history)
    convIn,     \* input of a handler function applied on its own
    convOut,    \* its output (done: it was applied)
    ctx,        \* the context of the running QueryData call: cancelled or
                \* not, and whether an HTTP call in flight was cut short
    served      \* per QueryData call that returned: the queries for which
                \* it sent a request upstream (history)

vars ==
    <<config, pc, queries, idx, responses, requests, calls, convIn, convOut, ctx, served>>

(***************************************************************************)
(* Bounds                                                                  *)
(***************************************************************************)
MaxBatch == 2       \* queries in one QueryData request
MaxSeries == 2      \* result series in one Prometheus response
MaxSamples == 3     \* samples in one Prometheus response, all series together
MaxStreams == 2     \* streams in one Loki response
MaxEntries == 3     \* entries in one Loki response, all streams together
MaxSlashes == 2     \* "/" at the end of a base URL and at the start of an endpoint
MaxRows == 3        \* elements of the array of one REST response
MaxCalls == 2       \* calls of QueryData on one instance

(***************************************************************************)
(* Values                                                                  *)
(***************************************************************************)
N(x) == [k |-> "num", n |-> x, s |-> ""]
S(x) == [k |-> "str", n |-> 0, s |-> x]

\* error values: nil, or fmt.Errorf(msg + detail) with the upstream status code
Nil == [msg |-> "", code |-> 0, detail |-> ""]
Errorf(msg, code, detail) == [msg |-> msg, code |-> code, detail |-> detail]

\* time.Unix(sec, nsec) with 0 <= nsec < 10^9, the zero time.Time, and what
\* time.Now() returns
TimeAt(sec, nsec) == [kind |-> "unix", sec |-> sec, nsec |-> nsec]
ZeroTime == [kind |-> "zero", sec |-> 0, nsec |-> 0]
TimeNow == [kind |-> "now", sec |-> 0, nsec |-> 0]

\* the time.Time of a query instant (milliseconds)
TimeOfMillis(ms) == TimeAt(ms \div 1000, (ms % 1000) * 1000000)

\* a float64 -> int64 conversion that rounds to the nearest integer
Int64Rounded(x) == IF x >= 0 THEN (x + 5) \div 10 ELSE -((5 - x) \div 10)

\* float64 -> int64 conversion of Go: truncation toward zero (x in tenths)
Int64OfFloat(x) == IF x >= 0 THEN x \div 10 ELSE -((-x) \div 10)

\* time.Unix(sec, 0)
TimeUnix(sec) == TimeAt(sec, 0)

\* Time.Unix() and Time.UnixNano() of a query instant (milliseconds)
UnixOf(t) == t \div 1000
UnixNanoOf(t) == t * 1000000

\* strconv.FormatInt(n, 10) followed by suffix: the decimal digits of n
FormatInt(n, suffix) == [dec |-> TRUE, n |-> n, s |-> suffix]
\* a string passed on verbatim
Verbatim(str) == [dec |-> FALSE, n |-> 0, s |-> str]

\* int64(Duration.Seconds()): whole seconds of a duration
WholeSeconds(d) == IF d >= 0 THEN d \div 1000 ELSE -((-d) \div 1000)

\* strconv.ParseFloat(s, 64) on the strings of the model: ok and the value
FloatStrings == {"1", "1.0", "2.5", "-3", "0"}

ParseFloatOk(s) == s \in FloatStrings

ParseFloatValue(s) ==
    CASE s = "1" -> 10
      [] s = "1.0" -> 10
      [] s = "2.5" -> 25
      [] s = "-3" -> -30
      [] OTHER -> 0

HasKey(m, key) == key \in DOMAIN m

EmptyMap == [x \in {} |-> ""]

(***************************************************************************)
(* data.Field, data.Frame, backend.DataResponse                            *)
(***************************************************************************)
\* data.NewField(name, labels, values); Config.DisplayNameFromDS is "" when
\* the code leaves Config nil
Field(name, labels, values, display) ==
    [Name |-> name, Labels |-> labels, Values |-> values, DisplayNameFromDS |-> display]

\* data.NewFrame("", fields...) with frame.Meta.Type ("" when Meta is nil) and
\* frame.Meta.Custom["labels"]
Frame(fields, type, custom) == [Fields |-> fields, Type |-> type, Custom |-> custom]

FrameTypeTimeSeriesMany == "timeseries-many"
FrameTypeLogLines == "log-lines"

ErrorResponse(e) == [Error |-> e, Frames |-> <<>>]
FramesResponse(frames) == [Error |-> Nil, Frames |-> frames]

(***************************************************************************)
(* HTTP: requests, the upstream's answer, what a handler call did          *)
(***************************************************************************)
\* http.NewRequestWithContext(ctx, method, url + "?" + params.Encode(), body)
\* with its headers: url a chunk sequence, params and header functions
Request(method, url, params, header, body) ==
    [method |-> method, url |-> url, params |-> params, header |-> header, body |-> body]

\* what client.Do and the reading of the body give: err (a transport error,
\* a timeout or a cancelled context), the status code, the body's text, and
\* the body as the handler's JSON decoder reads it (ok: it decodes, val)
\* cut: reading the body fails before its end
Answer(status, text, ok, val) ==
    [err |-> FALSE, status |-> status, text |-> text, cut |-> FALSE, ok |-> ok, val |-> val]
CutAnswer(status) ==
    [err |-> FALSE, status |-> status, text |-> "", cut |-> TRUE, ok |-> FALSE, val |-> <<>>]
NoAnswer ==
    [err |-> TRUE, status |-> 0, text |-> "", cut |-> FALSE, ok |-> FALSE, val |-> <<>>]

\* http.StatusOK
StatusOK == 200

\* a handler call's result: the DataResponse it returns and the requests it
\* gave to client.Do; panic: the call panicked instead of returning
Returned(res, reqs) == [panic |-> FALSE, res |-> res, reqs |-> reqs]
Panicked(reqs) == [panic |-> TRUE, res |-> ErrorResponse(Nil), reqs |-> reqs]

\* an addAuthHeaders that sets every scheme the instance has credentials for
addAuthHeadersEveryScheme(cfg, header) ==
    LET set(h0, name, value) ==
            [h \in DOMAIN h0 \cup {name} |-> IF h = name THEN value ELSE h0[h]]
        basic == IF cfg.BasicAuthUser # "" /\ cfg.BasicAuthPass # ""
                 THEN set(header, "Authorization",
                          <<"Basic ", cfg.BasicAuthUser, ":", cfg.BasicAuthPass>>)
                 ELSE header
        key == IF cfg.APIKey # "" THEN set(basic, "X-Api-Key", <<cfg.APIKey>>) ELSE basic
    IN  IF cfg.BearerToken # ""
        THEN set(key, "Authorization", <<"Bearer ", cfg.BearerToken>>)
        ELSE key

\* addAuthHeaders (the same body in PrometheusHandler, LokiHandler and
\* RESTAPIHandler): the request's header with the credentials of cfg set
addAuthHeaders(cfg, header) ==
    LET set(name, value) ==
            [h \in DOMAIN header \cup {name} |-> IF h = name THEN value ELSE header[h]]
    IN  IF cfg.BearerToken # "" THEN set("Authorization", <<"Bearer ", cfg.BearerToken>>)
        ELSE IF cfg.APIKey # "" THEN set("X-Api-Key", <<cfg.APIKey>>)
        ELSE IF cfg.BasicAuthUser # "" /\ cfg.BasicAuthPass # ""
             THEN set("Authorization",
                      <<"Basic ", cfg.BasicAuthUser, ":", cfg.BasicAuthPass>>)
        ELSE header

(***************************************************************************)
(* prometheus.go: convertToDataFrames, buildSeriesName                     *)
(***************************************************************************)
\* buildSeriesName that looks at the instance label first
PromBuildSeriesNameInstanceFirst(metric) ==
    IF HasKey(metric, "instance") THEN metric["instance"]
    ELSE IF HasKey(metric, "__name__") THEN metric["__name__"]
    ELSE "series"

\* buildSeriesName (PrometheusHandler)
PromBuildSeriesName(metric) ==
    IF HasKey(metric, "__name__") THEN metric["__name__"]
    ELSE IF HasKey(metric, "instance") THEN metric["instance"]
    ELSE "series"

\* a loop body that takes a value it cannot parse as 0
PromSampleErrorLenient(val) ==
    IF val[1].k # "num" THEN "invalid timestamp format"
    ELSE IF val[2].k # "str" THEN "invalid value format"
    ELSE ""

\* one [timestamp, "value"] element: the error the loop body returns, or ""
PromSampleError(val) ==
    IF val[1].k # "num" THEN "invalid timestamp format"
    ELSE IF val[2].k # "str" THEN "invalid value format"
    ELSE IF ~ParseFloatOk(val[2].s) THEN "failed to parse value: "
    ELSE ""

\* the loop over result.Values of a range result: times and values start as
\* len(result.Values) zero elements, element i is assigned by index, an
\* element shorter than 2 is skipped, the first bad element returns the error
RECURSIVE PromRangeLoop(_, _, _, _)
PromRangeLoop(vals, i, times, values) ==
    IF i > Len(vals) THEN [err |-> "", times |-> times, values |-> values]
    ELSE IF Len(vals[i]) < 2 THEN PromRangeLoop(vals, i + 1, times, values)
    ELSE IF PromSampleError(vals[i]) # ""
         THEN [err |-> PromSampleError(vals[i]), times |-> <<>>, values |-> <<>>]
    ELSE PromRangeLoop(vals, i + 1,
            [times EXCEPT ![i] = TimeUnix(Int64OfFloat(vals[i][1].n))],
            [values EXCEPT ![i] = ParseFloatValue(vals[i][2].s)])

\* the body of the loop over resp.Data.Result for one result: its Frame or the error
PromConvertResult(result, isRangeQuery) ==
    LET name == PromBuildSeriesName(result.Metric)
        mk(times, values) ==
            Frame(<<Field("time", EmptyMap, times, ""),
                    Field("value", result.Metric, values, name)>>,
                  FrameTypeTimeSeriesMany, EmptyMap)
    IN  IF isRangeQuery
        THEN LET n == Len(result.Values)
                 r == PromRangeLoop(result.Values, 1,
                                    [j \in 1..n |-> ZeroTime], [j \in 1..n |-> 0])
             IN  IF r.err # "" THEN [err |-> r.err, frame |-> <<>>]
                 ELSE [err |-> "", frame |-> mk(r.times, r.values)]
        ELSE IF Len(result.Value) < 2
             THEN [err |-> "invalid instant query response", frame |-> <<>>]
        ELSE IF PromSampleError(result.Value) # ""
             THEN [err |-> PromSampleError(result.Value), frame |-> <<>>]
        ELSE [err |-> "",
              frame |-> mk(<<TimeUnix(Int64OfFloat(result.Value[1].n))>>,
                           <<ParseFloatValue(result.Value[2].s)>>)]

RECURSIVE PromConvertLoop(_, _, _, _)
PromConvertLoop(results, i, isRangeQuery, frames) ==
    IF i > Len(results) THEN [err |-> "", frames |-> frames]
    ELSE LET r == PromConvertResult(results[i], isRangeQuery)
         IN  IF r.err # "" THEN [err |-> r.err, frames |-> <<>>]
             ELSE PromConvertLoop(results, i + 1, isRangeQuery, Append(frames, r.frame))

\* convertToDataFrames (PrometheusHandler): (frames, err)
PromConvertToDataFrames(resp, isRangeQuery) ==
    PromConvertLoop(resp.Result, 1, isRangeQuery, <<>>)

(***************************************************************************)
(* prometheus.go: handlePrometheusQuery, executeQuery                      *)
(***************************************************************************)
\* the request executeQuery builds (lines 50-88)
PromRequest(cfg, query, queryModel) ==
    LET isRangeQuery == query.From # query.To
        promURL == IF isRangeQuery THEN cfg.PrometheusURL \o <<"/api/v1/query_range">>
                   ELSE cfg.PrometheusURL \o <<"/api/v1/query">>
        step == IF query.Interval = 0 THEN 15000 ELSE query.Interval
        params ==
            IF isRangeQuery
            THEN [p \in {"query", "start", "end", "step"} |->
                    CASE p = "query" -> Verbatim(queryModel.promQL)
                      [] p = "start" -> FormatInt(UnixOf(query.From), "")
                      [] p = "end" -> FormatInt(UnixOf(query.To), "")
                      [] p = "step" -> FormatInt(WholeSeconds(step), "s")]
            ELSE [p \in {"query", "time"} |->
                    CASE p = "query" -> Verbatim(queryModel.promQL)
                      [] p = "time" -> FormatInt(UnixOf(query.To), "")]
    IN  Request("GET", promURL, params, addAuthHeaders(cfg, EmptyMap), "")

\* executeQuery that returns, with a conversion error, the Frames of the
\* results before the bad one
PromExecuteQueryKeepsFrames(cfg, query, queryModel, ans) ==
    LET isRangeQuery == query.From # query.To
        req == PromRequest(cfg, query, queryModel)
        conv == PromConvertToDataFrames(ans.val, isRangeQuery)
        head == PromConvertLoop(SubSeq(ans.val.Result, 1, 1), 1, isRangeQuery, <<>>)
        res ==
            IF ans.err THEN ErrorResponse(Errorf("failed to execute request: ", 0, ""))
            ELSE IF ans.status # StatusOK
                 THEN ErrorResponse(Errorf("Prometheus API returned status", ans.status, ans.text))
            ELSE IF ans.cut \/ ~ans.ok
                 THEN ErrorResponse(Errorf("failed to parse response: ", 0, ""))
            ELSE IF ans.val.Status # "success"
                 THEN ErrorResponse(Errorf("Prometheus query failed: ", 0, ans.val.Status))
            ELSE IF conv.err # ""
                 THEN [Error |-> Errorf("failed to convert response: ", 0, conv.err),
                       Frames |-> head.frames]
            ELSE FramesResponse(conv.frames)
    IN  Returned(res, <<req>>)

\* executeQuery (PrometheusHandler), given the upstream's answer
PromExecuteQuery(cfg, query, queryModel, ans) ==
    LET isRangeQuery == query.From # query.To
        req == PromRequest(cfg, query, queryModel)
        conv == PromConvertToDataFrames(ans.val, isRangeQuery)
        res ==
            IF ans.err THEN ErrorResponse(Errorf("failed to execute request: ", 0, ""))
            ELSE IF ans.status # StatusOK
                 THEN ErrorResponse(Errorf("Prometheus API returned status", ans.status, ans.text))
            ELSE IF ans.cut \/ ~ans.ok
                 THEN ErrorResponse(Errorf("failed to parse response: ", 0, ""))
            ELSE IF ans.val.Status # "success"
                 THEN ErrorResponse(Errorf("Prometheus query failed: ", 0, ans.val.Status))
            ELSE IF conv.err # ""
                 THEN ErrorResponse(Errorf("failed to convert response: ", 0, conv.err))
            ELSE FramesResponse(conv.frames)
    IN  Returned(res, <<req>>)

\* handlePrometheusQuery without the check of the PromQL expression
handlePrometheusQueryAnyPromQL(cfg, query, queryModel, ans) ==
    IF cfg.PrometheusURL = <<>>
    THEN Returned(ErrorResponse(Errorf("Prometheus URL not configured", 0, "")), <<>>)
    ELSE PromExecuteQuery(cfg, query, queryModel, ans)

\* handlePrometheusQuery
handlePrometheusQuery(cfg, query, queryModel, ans) ==
    IF cfg.PrometheusURL = <<>>
    THEN Returned(ErrorResponse(Errorf("Prometheus URL not configured", 0, "")), <<>>)
    ELSE IF queryModel.promQL = ""
    THEN Returned(ErrorResponse(Errorf("PromQL query is required", 0, "")), <<>>)
    ELSE PromExecuteQuery(cfg, query, queryModel, ans)

(***************************************************************************)
(* loki.go (src/unnamed/part_002)                                          *)
(***************************************************************************)
\* strconv.ParseInt(s, 10, 64) on the strings of the model
IntStrings == {"0", "1", "1500000000", "2000000001"}

ParseIntOk(s) == s \in IntStrings

ParseIntValue(s) ==
    CASE s = "1" -> 1
      [] s = "1500000000" -> 1500000000
      [] s = "2000000001" -> 2000000001
      [] OTHER -> 0

\* time.Unix(0, nsec)
TimeUnixNano(nsec) == TimeAt(nsec \div 1000000000, nsec % 1000000000)

\* buildSeriesName (LokiHandler): the names it can return; ranging over a map
\* with several labels returns the value of whichever label comes first
LokiBuildSeriesName(labels) ==
    IF HasKey(labels, "job") THEN {labels["job"]}
    ELSE IF HasKey(labels, "instance") THEN {labels["instance"]}
    ELSE IF DOMAIN labels # {} THEN {labels[l] : l \in DOMAIN labels}
    ELSE {"logs"}

\* the loop over result.Values (lines 162-180): the entries it keeps
RECURSIVE LokiEntries(_, _, _, _)
LokiEntries(vals, i, times, values) ==
    IF i > Len(vals) THEN [times |-> times, values |-> values]
    ELSE IF Len(vals[i]) < 2 THEN LokiEntries(vals, i + 1, times, values)
    ELSE IF ~ParseIntOk(vals[i][1]) THEN LokiEntries(vals, i + 1, times, values)
    ELSE LokiEntries(vals, i + 1,
            Append(times, TimeUnixNano(ParseIntValue(vals[i][1]))),
            Append(values, vals[i][2]))

\* a loop body that makes a Frame of a result without a valid entry too
LokiConvertResultKeepsEmpty(result) ==
    LET e == LokiEntries(result.Values, 1, <<>>, <<>>)
    IN  {<<Frame(<<Field("time", EmptyMap, e.times, ""),
                    Field("value", result.Stream, e.values, name)>>,
                  FrameTypeLogLines, result.Stream)>> :
            name \in LokiBuildSeriesName(result.Stream)}

\* the Frames one result can give: none when it has no valid entry
LokiConvertResult(result) ==
    LET e == LokiEntries(result.Values, 1, <<>>, <<>>)
    IN  IF Len(e.times) = 0 THEN {<<>>}
        ELSE {<<Frame(<<Field("time", EmptyMap, e.times, ""),
                        Field("value", result.Stream, e.values, name)>>,
                      FrameTypeLogLines, result.Stream)>> :
                name \in LokiBuildSeriesName(result.Stream)}

\* convertToDataFrames (LokiHandler): the Frames it can return (its error is
\* always nil)
RECURSIVE LokiConvertToDataFrames(_, _)
LokiConvertToDataFrames(results, i) ==
    IF i > Len(results) THEN {<<>>}
    ELSE {f \o rest : f \in LokiConvertResult(results[i]),
                      rest \in LokiConvertToDataFrames(results, i + 1)}

\* the request executeQuery builds (lines 86-104)
LokiRequest(cfg, query, queryModel) ==
    Request("GET", cfg.LokiURL \o <<"/loki/api/v1/query_range">>,
            [p \in {"query", "start", "end", "limit"} |->
                CASE p = "query" -> Verbatim(queryModel.logQL)
                  [] p = "start" -> FormatInt(UnixNanoOf(query.From), "")
                  [] p = "end" -> FormatInt(UnixNanoOf(query.To), "")
                  [] p = "limit" -> Verbatim("1000")],
            addAuthHeaders(cfg, EmptyMap), "")

\* executeQuery that converts whatever the envelope's status says
LokiExecuteQueryAnyEnvelope(cfg, query, queryModel, ans) ==
    LET req == LokiRequest(cfg, query, queryModel)
        fail(e) == {Returned(ErrorResponse(e), <<req>>)}
    IN  IF ans.err THEN fail(Errorf("failed to execute request: ", 0, ""))
        ELSE IF ans.status # StatusOK
             THEN fail(Errorf("Loki API returned status", ans.status, ans.text))
        ELSE IF ans.cut \/ ~ans.ok THEN fail(Errorf("failed to parse response: ", 0, ""))
        ELSE {Returned(FramesResponse(frames), <<req>>) :
                frames \in LokiConvertToDataFrames(ans.val.Result, 1)}

\* executeQuery that sends its request a second time when the first fails
LokiExecuteQueryRetrying(cfg, query, queryModel, ans) ==
    LET req == LokiRequest(cfg, query, queryModel)
        fail(e) == {Returned(ErrorResponse(e), <<req>>)}
    IN  IF ans.err
        THEN {Returned(ErrorResponse(Errorf("failed to execute request: ", 0, "")),
                       <<req, req>>)}
        ELSE IF ans.status # StatusOK
             THEN {Returned(ErrorResponse(Errorf("Loki API returned status", ans.status,
                                                 ans.text)), <<req, req>>)}
        ELSE IF ans.cut \/ ~ans.ok THEN fail(Errorf("failed to parse response: ", 0, ""))
        ELSE IF ans.val.Status # "success"
             THEN fail(Errorf("Loki query failed: ", 0, ans.val.Status))
        ELSE {Returned(FramesResponse(frames), <<req>>) :
                frames \in LokiConvertToDataFrames(ans.val.Result, 1)}

\* executeQuery (LokiHandler), given the upstream's answer: its possible results
LokiExecuteQuery(cfg, query, queryModel, ans) ==
    LET req == LokiRequest(cfg, query, queryModel)
        fail(e) == {Returned(ErrorResponse(e), <<req>>)}
    IN  IF ans.err THEN fail(Errorf("failed to execute request: ", 0, ""))
        ELSE IF ans.status # StatusOK
             THEN fail(Errorf("Loki API returned status", ans.status, ans.text))
        ELSE IF ans.cut \/ ~ans.ok THEN fail(Errorf("failed to parse response: ", 0, ""))
        ELSE IF ans.val.Status # "success"
             THEN fail(Errorf("Loki query failed: ", 0, ans.val.Status))
        ELSE {Returned(FramesResponse(frames), <<req>>) :
                frames \in LokiConvertToDataFrames(ans.val.Result, 1)}

\* handleLokiQuery
handleLokiQuery(cfg, query, queryModel, ans) ==
    IF cfg.LokiURL = <<>>
    THEN {Returned(ErrorResponse(Errorf("Loki URL not configured", 0, "")), <<>>)}
    ELSE IF queryModel.logQL = ""
    THEN {Returned(ErrorResponse(Errorf("LogQL query is required", 0, "")), <<>>)}
    ELSE LokiExecuteQuery(cfg, query, queryModel, ans)

(***************************************************************************)
(* restapi.go: the JSON value of a response and its conversion             *)
(***************************************************************************)
\* json.Unmarshal into interface{}: nil, bool, float64 (N), string (S),
\* []interface{} and map[string]interface{}
JNull == [k |-> "null", n |-> 0, s |-> ""]
JBool(b) == [k |-> "bool", n |-> 0, s |-> IF b THEN "true" ELSE "false"]
JArr(items) == [k |-> "arr", n |-> 0, s |-> "", items |-> items]
JObj(fields) == [k |-> "obj", n |-> 0, s |-> "", fields |-> fields]

\* the orders in which a range over a map with key set K can visit its keys
Perms(K) ==
    {p \in [1..Cardinality(K) -> K] : \A i, j \in 1..Cardinality(K) : p[i] = p[j] => i = j}

TimeKeys == <<"time", "timestamp", "date", "ts", "datetime">>

IsTimeKey(key) == \E i \in 1..Len(TimeKeys) : TimeKeys[i] = key

\* time.Parse(time.RFC3339, s) on the strings of the model
RFC3339Strings == {"2024-01-01T00:00:00Z", "2024-01-01T00:01:00Z"}

ParseRFC3339(s) ==
    CASE s = "2024-01-01T00:00:00Z" -> TimeAt(1704067200, 0)
      [] s = "2024-01-01T00:01:00Z" -> TimeAt(1704067260, 0)

\* an int64 beyond 32 bits: hi * 10^6 + lo with 0 <= lo < 10^6
Wide(hi, lo) == [hi |-> hi, lo |-> lo]
WideOf(n) == Wide(n \div 1000000, n % 1000000)

\* a float64 beyond the tenths of N: hi * 10^6 + lo + tenth / 10
NWide(hi, lo, tenth) ==
    [k |-> "num", n |-> 0, s |-> "", hi |-> hi, lo |-> lo, tenth |-> tenth]

IsWideNumber(val) == val.k = "num" /\ "hi" \in DOMAIN val

\* strconv.ParseInt(v, 10, 64) on the strings of the model, as a Wide
WideIntStrings == {"999999999999", "1000000000000", "1000000000001", "1700000000123"}

ParseInt64Ok(s) == ParseIntOk(s) \/ s \in WideIntStrings

ParseInt64(s) ==
    CASE s = "999999999999" -> Wide(999999, 999999)
      [] s = "1000000000000" -> Wide(1000000, 0)
      [] s = "1000000000001" -> Wide(1000000, 1)
      [] s = "1700000000123" -> Wide(1700000, 123)
      [] OTHER -> WideOf(ParseIntValue(s))

\* a comparison with 1e12 that takes 1e12 itself for milliseconds
AtLeast1e12(ts, tenth) == ts.hi >= 1000000

\* ts > 1e12 (lines 297 and 311) and v > 1e12 (line 305), v being ts plus
\* tenth tenths
Above1e12(ts, tenth) ==
    \/ ts.hi > 1000000
    \/ ts.hi = 1000000 /\ (ts.lo > 0 \/ tenth > 0)

\* time.Unix(ts, nsec): a TimeAt when ts has 32 bits
TimeUnixWide(ts, nsec) ==
    IF ts.hi > -2000 /\ ts.hi < 2000 THEN TimeAt(ts.hi * 1000000 + ts.lo, nsec)
    ELSE [kind |-> "unix", hi |-> ts.hi, lo |-> ts.lo, nsec |-> nsec]

\* time.Unix(ts/1000, (ts%1000)*1e6) for a ts above 1e12
TimeUnixMilli(ts) == TimeAt(ts.hi * 1000 + ts.lo \div 1000, (ts.lo % 1000) * 1000000)

\* int64(v) of a decoded JSON number, and its tenths beyond the integer
Int64OfNumber(val) ==
    IF IsWideNumber(val) THEN Wide(val.hi, val.lo) ELSE WideOf(Int64OfFloat(val.n))

TenthsOfNumber(val) ==
    IF IsWideNumber(val) THEN val.tenth
    ELSE IF val.n >= 0 THEN val.n % 10 ELSE 0

\* parseTimestamp
parseTimestamp(val) ==
    IF val.k = "str" /\ val.s \in RFC3339Strings THEN ParseRFC3339(val.s)
    ELSE IF val.k = "str" /\ ParseInt64Ok(val.s)
    THEN IF Above1e12(ParseInt64(val.s), 0) THEN TimeUnixMilli(ParseInt64(val.s))
         ELSE TimeUnixWide(ParseInt64(val.s), 0)
    ELSE IF val.k = "num"
    THEN IF Above1e12(Int64OfNumber(val), TenthsOfNumber(val))
         THEN TimeUnixMilli(Int64OfNumber(val))
         ELSE TimeUnixWide(Int64OfNumber(val), 0)
    ELSE TimeNow

\* isNumeric and toFloat64 on a decoded JSON value
isNumeric(val) == val.k = "num" \/ (val.k = "str" /\ ParseFloatOk(val.s))

toFloat64(val) ==
    IF val.k = "num" THEN val.n
    ELSE IF val.k = "str" /\ ParseFloatOk(val.s) THEN ParseFloatValue(val.s)
    ELSE 0

\* the keys of a row that the two loops over obj (lines 216 and 228) act on
NumericKeys(obj) == {key \in DOMAIN obj : ~IsTimeKey(key) /\ isNumeric(obj[key])}

\* lines 227-238: the values of obj appended to the fields by position, the
\* keys visited in the order ord
RECURSIVE AppendValues(_, _, _, _)
AppendValues(valueFields, obj, ord, fieldIdx) ==
    IF fieldIdx > Len(ord) \/ fieldIdx > Len(valueFields) THEN valueFields
    ELSE AppendValues(
            [valueFields EXCEPT ![fieldIdx].Values = Append(@, toFloat64(obj[ord[fieldIdx]]))],
            obj, ord, fieldIdx + 1)

\* a loop body in which hasTimeField says whether this row has a time key
RowStepOwnTimeKey(st, obj, query) ==
    LET found == {i \in 1..Len(TimeKeys) : HasKey(obj, TimeKeys[i])}
        first == CHOOSE i \in found : \A j \in found : i <= j
        hasTimeField == found # {}
        timestamp ==
            IF found # {} THEN parseTimestamp(obj[TimeKeys[first]])
            ELSE TimeOfMillis(query.From + Len(st.times) * query.Interval)
        inits == IF Len(st.valueFields) = 0
                 THEN {[i \in 1..Len(o) |-> Field(o[i], EmptyMap, <<>>, "")] :
                            o \in Perms(NumericKeys(obj))}
                 ELSE {st.valueFields}
    IN  {[times |-> Append(st.times, timestamp),
          hasTimeField |-> hasTimeField,
          valueFields |-> AppendValues(fields, obj, ord, 1)] :
            fields \in inits, ord \in Perms(NumericKeys(obj))}

\* one iteration of the loop of lines 190-239 on an object: the states it can
\* leave (times, hasTimeField, valueFields)
RowStep(st, obj, query) ==
    LET found == {i \in 1..Len(TimeKeys) : HasKey(obj, TimeKeys[i])}
        first == CHOOSE i \in found : \A j \in found : i <= j
        hasTimeField == st.hasTimeField \/ found # {}
        timestamp ==
            IF found # {} THEN parseTimestamp(obj[TimeKeys[first]])
            ELSE IF ~hasTimeField
                 THEN TimeOfMillis(query.From + Len(st.times) * query.Interval)
            ELSE ZeroTime
        inits == IF Len(st.valueFields) = 0
                 THEN {[i \in 1..Len(o) |-> Field(o[i], EmptyMap, <<>>, "")] :
                            o \in Perms(NumericKeys(obj))}
                 ELSE {st.valueFields}
    IN  {[times |-> Append(st.times, timestamp),
          hasTimeField |-> hasTimeField,
          valueFields |-> AppendValues(fields, obj, ord, 1)] :
            fields \in inits, ord \in Perms(NumericKeys(obj))}

RECURSIVE RowLoop(_, _, _, _)
RowLoop(arr, i, sts, query) ==
    IF i > Len(arr) THEN sts
    ELSE IF arr[i].k # "obj" THEN RowLoop(arr, i + 1, sts, query)
    ELSE RowLoop(arr, i + 1,
                 UNION {RowStep(st, arr[i].fields, query) : st \in sts}, query)

\* data.NewField(name, labels, values) panics when the type of values is not
\* one of its supported slice types; []interface{} (lines 172, 179, 272 and
\* 283) is not one of them
NewFieldOfInterfaceSlice == [panic |-> TRUE, frame |-> Frame(<<>>, "", EmptyMap)]

Made(frame) == [panic |-> FALSE, frame |-> frame]

\* arrayToDataFrame: the results it can have, each a Frame or a panic
arrayToDataFrame(arr, query) ==
    IF Len(arr) = 0 THEN {NewFieldOfInterfaceSlice}
    ELSE IF arr[1].k # "obj" THEN {NewFieldOfInterfaceSlice}
    ELSE {IF st.hasTimeField
          THEN Made(Frame(<<Field("time", EmptyMap, st.times, "")>> \o st.valueFields,
                          FrameTypeTimeSeriesMany, EmptyMap))
          ELSE Made(Frame(st.valueFields, "", EmptyMap)) :
            st \in RowLoop(arr, 1,
                           {[times |-> <<>>, hasTimeField |-> FALSE, valueFields |-> <<>>]},
                           query)}

\* an objectToDataFrame that takes every object for a single row
objectToDataFrameWithoutEnvelope(obj, query) ==
    IF DOMAIN obj # {} THEN {NewFieldOfInterfaceSlice}
    ELSE {Made(Frame(<<>>, "", EmptyMap))}

\* objectToDataFrame
objectToDataFrame(obj, query) ==
    IF HasKey(obj, "data") /\ obj["data"].k = "arr"
    THEN arrayToDataFrame(obj["data"].items, query)
    ELSE IF DOMAIN obj # {} THEN {NewFieldOfInterfaceSlice}
    ELSE {Made(Frame(<<>>, "", EmptyMap))}

\* primitiveToDataFrame: its "value" Field is made of a []interface{}
primitiveToDataFrame(val, query) == {NewFieldOfInterfaceSlice}

\* convertToDataFrames (RESTAPIHandler): the results it can have, each the
\* Frames it returns (its error is always nil) or a panic
RestConvertToDataFrames(jsonData, query) ==
    LET made == IF jsonData.k = "arr" THEN arrayToDataFrame(jsonData.items, query)
                ELSE IF jsonData.k = "obj" THEN objectToDataFrame(jsonData.fields, query)
                ELSE primitiveToDataFrame(jsonData, query)
    IN  {[panic |-> m.panic, frames |-> IF m.panic THEN <<>> ELSE <<m.frame>>] : m \in made}

(***************************************************************************)
(* restapi.go: handleRESTQuery, executeQuery                               *)
(***************************************************************************)
\* strings.TrimSuffix(s, "/") and strings.TrimPrefix(s, "/"): one "/" at most
TrimSuffixSlash(str) ==
    IF Len(str) > 0 /\ str[Len(str)] = "/" THEN SubSeq(str, 1, Len(str) - 1) ELSE str

TrimPrefixSlash(str) ==
    IF Len(str) > 0 /\ str[1] = "/" THEN SubSeq(str, 2, Len(str)) ELSE str

\* strings.ToUpper on the method names of the model
ToUpper(str) ==
    CASE str = "get" -> "GET"
      [] str = "post" -> "POST"
      [] str = "Put" -> "PUT"
      [] str = "patch" -> "PATCH"
      [] str = "delete" -> "DELETE"
      [] OTHER -> str

\* textproto.CanonicalMIMEHeaderKey on the header names of the model
CanonicalKey(str) ==
    CASE str = "content-type" -> "Content-Type"
      [] str = "authorization" -> "Authorization"
      [] str = "x-api-key" -> "X-Api-Key"
      [] str = "X-API-Key" -> "X-Api-Key"
      [] OTHER -> str

\* req.Header.Set(name, value)
HeaderSet(header, name, value) ==
    [h \in DOMAIN header \cup {CanonicalKey(name)} |->
        IF h = CanonicalKey(name) THEN value ELSE header[h]]

\* lines 78-82: the headers of the query set on the request, in the order ord
RECURSIVE SetHeaders(_, _, _, _)
SetHeaders(header, restHeaders, ord, i) ==
    IF i > Len(ord) THEN header
    ELSE SetHeaders(HeaderSet(header, ord[i], <<restHeaders[ord[i]]>>), restHeaders, ord, i + 1)

\* executeQuery that sets Content-Type on every request with a body
RestRequestOverwritingContentType(cfg, query, queryModel) ==
    LET baseURL == TrimSuffixSlash(cfg.RESTURL)
        endpoint == TrimPrefixSlash(queryModel.restEndpoint)
        fullURL == baseURL \o <<"/">> \o endpoint
        method == IF ToUpper(queryModel.restMethod) = "" THEN "GET"
                  ELSE ToUpper(queryModel.restMethod)
        hasBody == queryModel.restBody # "" /\ method \in {"POST", "PUT", "PATCH"}
        body == IF hasBody THEN queryModel.restBody ELSE ""
        defaults(h) ==
            IF hasBody THEN HeaderSet(h, "Content-Type", <<"application/json">>) ELSE h
    IN  {Request(method, fullURL, EmptyMap,
                 addAuthHeaders(cfg, defaults(SetHeaders(EmptyMap, queryModel.restHeaders, ord, 1))),
                 body) :
            ord \in Perms(DOMAIN queryModel.restHeaders)}

\* the requests executeQuery can build (lines 52-90); http.NewRequest accepts
\* every method and URL of the model
RestRequest(cfg, query, queryModel) ==
    LET baseURL == TrimSuffixSlash(cfg.RESTURL)
        endpoint == TrimPrefixSlash(queryModel.restEndpoint)
        fullURL == baseURL \o <<"/">> \o endpoint
        method == IF ToUpper(queryModel.restMethod) = "" THEN "GET"
                  ELSE ToUpper(queryModel.restMethod)
        hasBody == queryModel.restBody # "" /\ method \in {"POST", "PUT", "PATCH"}
        body == IF hasBody THEN queryModel.restBody ELSE ""
        defaults(h) ==
            IF (~HasKey(h, "Content-Type") \/ h["Content-Type"] = <<"">>) /\ hasBody
            THEN HeaderSet(h, "Content-Type", <<"application/json">>)
            ELSE h
    IN  {Request(method, fullURL, EmptyMap,
                 addAuthHeaders(cfg, defaults(SetHeaders(EmptyMap, queryModel.restHeaders, ord, 1))),
                 body) :
            ord \in Perms(DOMAIN queryModel.restHeaders)}

\* executeQuery (RESTAPIHandler), given the upstream's answer: its possible results
RestExecuteQuery(cfg, query, queryModel, ans) ==
    IF cfg.RESTURL = <<>>
    THEN {Returned(ErrorResponse(Errorf("REST API base URL not configured", 0, "")), <<>>)}
    ELSE UNION {
        LET fail(e) == {Returned(ErrorResponse(e), <<req>>)}
        IN  IF ans.err THEN fail(Errorf("failed to execute request: ", 0, ""))
            ELSE IF ans.status < 200 \/ ans.status >= 300
                 THEN fail(Errorf("REST API returned status", ans.status, ans.text))
            ELSE IF ans.cut THEN fail(Errorf("failed to read response: ", 0, ""))
            ELSE IF ~ans.ok THEN fail(Errorf("failed to parse JSON response: ", 0, ""))
            ELSE {IF c.panic THEN Panicked(<<req>>)
                  ELSE Returned(FramesResponse(c.frames), <<req>>) :
                    c \in RestConvertToDataFrames(ans.val, query)}
        : req \in RestRequest(cfg, query, queryModel)}

\* handleRESTQuery
handleRESTQuery(cfg, query, queryModel, ans) ==
    IF queryModel.restEndpoint = <<>>
    THEN {Returned(ErrorResponse(Errorf("REST endpoint is required", 0, "")), <<>>)}
    ELSE RestExecuteQuery(cfg, query, queryModel, ans)

(***************************************************************************)
(* datasource.go: handleQuery                                              *)
(***************************************************************************)
QueryTypePrometheus == "prometheus"
QueryTypeLoki == "loki"
QueryTypeREST == "rest"

\* a handler call's result with the handler handleQuery reached
Reached(handler, out) ==
    [panic |-> out.panic, res |-> out.res, reqs |-> out.reqs, handler |-> handler]

\* handleQuery that compares the type tag whatever its case
handleQueryFoldingCase(cfg, query, ans) ==
    LET queryModel == query.JSON
    IN  IF ~query.JSON.ok
        THEN {Reached("none", Returned(ErrorResponse(Errorf("failed to parse query: ", 0, "")), <<>>))}
        ELSE IF queryModel.queryType \in {QueryTypePrometheus, "Prometheus"}
        THEN {Reached("prometheus", handlePrometheusQuery(cfg, query, queryModel, ans))}
        ELSE IF queryModel.queryType = QueryTypeLoki
        THEN {Reached("loki", out) : out \in handleLokiQuery(cfg, query, queryModel, ans)}
        ELSE IF queryModel.queryType = QueryTypeREST
        THEN {Reached("rest", out) : out \in handleRESTQuery(cfg, query, queryModel, ans)}
        ELSE {Reached("none",
                Returned(ErrorResponse(Errorf("unknown query type: ", 0, queryModel.queryType)),
                         <<>>))}

\* handleQuery, given the upstream's answer to the request it makes, if any:
\* its possible results. query.JSON.ok: json.Unmarshal accepts query.JSON
handleQuery(cfg, query, ans) ==
    LET queryModel == query.JSON
    IN  IF ~query.JSON.ok
        THEN {Reached("none", Returned(ErrorResponse(Errorf("failed to parse query: ", 0, "")), <<>>))}
        ELSE IF queryModel.queryType = QueryTypePrometheus
        THEN {Reached("prometheus", handlePrometheusQuery(cfg, query, queryModel, ans))}
        ELSE IF queryModel.queryType = QueryTypeLoki
        THEN {Reached("loki", out) : out \in handleLokiQuery(cfg, query, queryModel, ans)}
        ELSE IF queryModel.queryType = QueryTypeREST
        THEN {Reached("rest", out) : out \in handleRESTQuery(cfg, query, queryModel, ans)}
        ELSE {Reached("none",
                Returned(ErrorResponse(Errorf("unknown query type: ", 0, queryModel.queryType)),
                         <<>>))}

(***************************************************************************)
(* The instances, requests and upstream answers of the model               *)
(***************************************************************************)
NoCredentials(prom, loki, rest) ==
    [PrometheusURL |-> prom, LokiURL |-> loki, RESTURL |-> rest,
     APIKey |-> "", BasicAuthUser |-> "", BasicAuthPass |-> "", BearerToken |-> "",
     RESTHeaders |-> EmptyMap]

\* every base URL is empty in one instance and set in another
Configs ==
    {NoCredentials(<<"http://prom">>, <<"http://loki">>, <<"http://rest">>),
     NoCredentials(<<"http://prom">>, <<>>, <<>>),
     NoCredentials(<<>>, <<"http://loki">>, <<"http://rest">>),
     NoCredentials(<<>>, <<>>, <<>>)}

RefIDs == {"A", "B"}

MalformedJSON ==
    [ok |-> FALSE, queryType |-> "", promQL |-> "", logQL |-> "", restEndpoint |-> <<>>,
     restMethod |-> "", restHeaders |-> EmptyMap, restBody |-> ""]

QueryJSON(type, promQL, logQL, endpoint) ==
    [ok |-> TRUE, queryType |-> type, promQL |-> promQL, logQL |-> logQL,
     restEndpoint |-> endpoint, restMethod |-> "", restHeaders |-> EmptyMap, restBody |-> ""]

\* backend.DataQuery: RefID, JSON, TimeRange.From, TimeRange.To, Interval
DataQuery(refID, json, from, to, interval) ==
    [RefID |-> refID, JSON |-> json, From |-> from, To |-> to, Interval |-> interval]

QueryPayloads ==
    {MalformedJSON,
     QueryJSON("", "up", "", <<>>),
     QueryJSON("Prometheus", "up", "{job}", <<"/", "v1">>),
     QueryJSON("prometheus", "", "{job}", <<"/", "v1">>),
     QueryJSON("prometheus", "up", "", <<>>),
     QueryJSON("loki", "up", "", <<"/", "v1">>),
     QueryJSON("loki", "", "{job}", <<>>),
     QueryJSON("rest", "up", "{job}", <<>>),
     QueryJSON("rest", "", "", <<"/", "v1">>)}

\* From, To, Interval: an instant query and a range query
QueryTimes == {<<1000, 1000, 0>>, <<1000, 2000, 1500>>}

Queries ==
    {DataQuery(r, j, t[1], t[2], t[3]) :
        r \in RefIDs, j \in QueryPayloads \ {QueryJSON("prometheus", "up", "", <<>>)},
        t \in {<<1000, 2000, 1000>>}}
    \cup {DataQuery(r, QueryJSON("prometheus", "up", "", <<>>), t[1], t[2], t[3]) :
            r \in RefIDs, t \in QueryTimes}

SeqsUpTo(set, n) == UNION {[1..m -> set] : m \in 0..n}

Batches == SeqsUpTo(Queries, MaxBatch)

Labels(name, instance) ==
    [l \in (IF name = "" THEN {} ELSE {"__name__"}) \cup
            (IF instance = "" THEN {} ELSE {"instance"}) |->
        IF l = "__name__" THEN name ELSE instance]

\* models.PrometheusQueryResponse as json.Decode fills it
PromSeries(metric, values, value) == [Metric |-> metric, Values |-> values, Value |-> value]
PromResponse(status, result) == [Status |-> status, Result |-> result]

GoodSeries ==
    PromSeries(Labels("up", "h1"), <<<<N(10), S("1")>>, <<N(25), S("2.5")>>>>,
               <<N(25), S("2.5")>>)
BadSeries ==
    PromSeries(Labels("", "h2"), <<<<N(10), S("abc")>>>>, <<N(10), S("abc")>>)

PromAnswers ==
    {NoAnswer,
     Answer(204, "", TRUE, PromResponse("success", <<GoodSeries>>)),
     Answer(503, "unavailable", FALSE, <<>>),
     Answer(200, "<html>", FALSE, <<>>),
     Answer(200, "{}", TRUE, PromResponse("error", <<GoodSeries>>)),
     Answer(200, "{}", TRUE, PromResponse("success", <<GoodSeries>>)),
     Answer(200, "{}", TRUE, PromResponse("success", <<GoodSeries, BadSeries>>))}

\* models.LokiQueryResponse as json.Decode fills it
LokiStream(stream, values) == [Stream |-> stream, Values |-> values]
LokiResponse(status, result) == [Status |-> status, Result |-> result]

GoodStream ==
    LokiStream([l \in {"job"} |-> "varlogs"],
               <<<<"1500000000", "line 1">>, <<"x", "line 2">>>>)

LokiAnswers ==
    {NoAnswer,
     Answer(404, "not found", FALSE, <<>>),
     Answer(200, "<html>", FALSE, <<>>),
     Answer(200, "{}", TRUE, LokiResponse("error", <<GoodStream>>)),
     Answer(200, "{}", TRUE, LokiResponse("success", <<GoodStream>>))}

RestAnswers ==
    {NoAnswer,
     Answer(500, "boom", FALSE, <<>>),
     Answer(200, "<html>", FALSE, <<>>),
     CutAnswer(200),
     Answer(201, "[]", TRUE,
            JArr(<<JObj([f \in {"time", "value"} |->
                            IF f = "time" THEN S("2024-01-01T00:00:00Z") ELSE N(50)])>>)),
     Answer(200, "{}", TRUE, JObj([f \in {"cpu"} |-> N(420)]))}

\* the answers the upstream can give to the request of a query, if one is made
Answers(query) ==
    IF ~query.JSON.ok THEN {NoAnswer}
    ELSE IF query.JSON.queryType = QueryTypePrometheus THEN PromAnswers
    ELSE IF query.JSON.queryType = QueryTypeLoki THEN LokiAnswers
    ELSE IF query.JSON.queryType = QueryTypeREST THEN RestAnswers
    ELSE {NoAnswer}

(***************************************************************************)
(* datasource.go: QueryData                                                *)
(***************************************************************************)
NoConversion == [done |-> FALSE]

\* a context that is not cancelled, no HTTP call cut short so far
Background == [cancelled |-> FALSE, cut |-> FALSE]

Init ==
    /\ config \in Configs
    /\ pc = "idle"
    /\ queries = <<>>
    /\ idx = 1
    /\ responses = EmptyMap
    /\ requests = <<>>
    /\ calls = <<>>
    /\ ctx = Background
    /\ served = <<>>
    /\ convIn = NoConversion
    /\ convOut = NoConversion

\* QueryData is called with a batch of queries:
\* response := backend.NewQueryDataResponse()
QueryData ==
    /\ pc = "idle"
    /\ pc' = "running"
    /\ queries' \in Batches
    /\ idx' = 1
    /\ responses' = EmptyMap
    /\ UNCHANGED <<config, ctx, served, requests, calls, convIn, convOut>>

\* one iteration of the loop of QueryData (lines 68-71): res := handleQuery,
\* response.Responses[q.RefID] = res; a panic of the handler leaves QueryData
HandleQuery ==
    /\ pc = "running"
    /\ idx <= Len(queries)
    /\ \E ans \in Answers(queries[idx]) :
        \E out \in handleQuery(config, queries[idx], ans) :
            /\ calls' = Append(calls, [handler |-> out.handler,
                                        ans |-> IF out.reqs = <<>> THEN NoAnswer ELSE ans,
                                        panic |-> out.panic, res |-> out.res])
            /\ requests' = requests \o [i \in 1..Len(out.reqs) |->
                                            [query |-> idx, req |-> out.reqs[i]]]
            /\ IF out.panic
               THEN /\ pc' = "panicked"
                    /\ UNCHANGED <<idx, responses>>
               ELSE /\ pc' = "running"
                    /\ idx' = idx + 1
                    /\ responses' =
                        [r \in DOMAIN responses \cup {queries[idx].RefID} |->
                            IF r = queries[idx].RefID THEN out.res ELSE responses[r]]
    /\ UNCHANGED <<config, ctx, served, queries, convIn, convOut>>

\* return response, nil (line 73)
QueryDataReturn ==
    /\ pc = "running"
    /\ idx > Len(queries)
    /\ pc' = "returned"
    /\ UNCHANGED <<config, ctx, served, queries, idx, responses, requests, calls, convIn, convOut>>

Next ==
    \/ QueryData
    \/ HandleQuery
    \/ QueryDataReturn

Spec == Init /\ [][Next]_vars

(***************************************************************************)
(* Properties of QueryData (specification Spec)                            *)
(***************************************************************************)
\* the queries handled so far, the requests made for query i, and the entry
\* of query i in the mapping
Handled == 1..Len(calls)
RequestsOf(i) == {k \in 1..Len(requests) : requests[k].query = i}
Entry(i) == responses[queries[i].RefID]

DistinctRefIDs ==
    \A i, j \in 1..Len(queries) : queries[i].RefID = queries[j].RefID => i = j

KnownTypes == {QueryTypePrometheus, QueryTypeLoki, QueryTypeREST}

\* the base URL configured for a type tag
BaseURL(type) ==
    CASE type = QueryTypePrometheus -> config.PrometheusURL
      [] type = QueryTypeLoki -> config.LokiURL
      [] type = QueryTypeREST -> config.RESTURL

\* query i fails before the network: its required setting or expression is empty
MissingInput(i) ==
    LET q == queries[i].JSON
    IN  /\ q.ok
        /\ q.queryType \in KnownTypes
        /\ \/ BaseURL(q.queryType) = <<>>
           \/ q.queryType = QueryTypePrometheus /\ q.promQL = ""
           \/ q.queryType = QueryTypeLoki /\ q.logQL = ""
           \/ q.queryType = QueryTypeREST /\ q.restEndpoint = <<>>

\* C1: QueryData on queries with distinct RefIDs returns a mapping, and the
\* keys of the mapping are exactly the RefIDs of the queries, whatever
\* queries succeed or fail
QueryDataKeysAreRefIDs ==
    DistinctRefIDs =>
        /\ pc # "panicked"
        /\ pc = "returned" =>
                DOMAIN responses = {queries[i].RefID : i \in 1..Len(queries)}

\* C2: the failure of one query never ends the batch: every query after it
\* is handled, QueryData returns the mapping, and the entry of every query
\* is what handleQuery gives for that query alone
QueryFailuresAreIsolated ==
    DistinctRefIDs =>
        /\ pc # "panicked"
        /\ pc = "returned" => Len(calls) = Len(queries)
        /\ \A i \in Handled :
                /\ ~calls[i].panic
                /\ Entry(i) \in {out.res : out \in handleQuery(config, queries[i], calls[i].ans)}

\* C3: a query is routed by its type tag alone: "prometheus", "loki" and
\* "rest" reach their own handler and no other upstream, any other tag, the
\* empty one included, reaches no handler, makes no request and gives the
\* error that names the tag
DispatchByTypeTag ==
    \A i \in Handled :
        LET q == queries[i].JSON
            c == calls[i]
        IN  q.ok =>
                /\ q.queryType \in KnownTypes =>
                        /\ c.handler = q.queryType
                        /\ \A k \in RequestsOf(i) :
                                SubSeq(requests[k].req.url, 1, Len(BaseURL(q.queryType)))
                                    = BaseURL(q.queryType)
                /\ q.queryType \notin KnownTypes =>
                        /\ c.handler = "none"
                        /\ RequestsOf(i) = {}
                        /\ c.res = ErrorResponse(Errorf("unknown query type: ", 0, q.queryType))

\* a returned batch with a query of an unknown tag and a query whose handler
\* asked its upstream
DispatchByTypeTagWitness ==
    /\ pc = "returned"
    /\ \E i, j \in Handled :
            /\ queries[i].JSON.ok /\ queries[i].JSON.queryType = "Prometheus"
            /\ queries[j].JSON.queryType = QueryTypeLoki /\ RequestsOf(j) # {}

\* C4: a query whose base URL or whose expression (PromQL, LogQL, REST
\* endpoint) is empty gets an error entry and makes no request
MissingInputRejectedBeforeNetwork ==
    \A i \in Handled :
        MissingInput(i) =>
            /\ RequestsOf(i) = {}
            /\ ~calls[i].panic
            /\ calls[i].res.Error # Nil
            /\ calls[i].res.Frames = <<>>

\* handled: a metrics query without PromQL under a configured base URL, and
\* a REST query under an empty base URL
MissingInputWitness ==
    \E i, j \in Handled :
        /\ queries[i].JSON.queryType = QueryTypePrometheus
        /\ queries[i].JSON.promQL = "" /\ config.PrometheusURL # <<>>
        /\ queries[j].JSON.queryType = QueryTypeREST
        /\ queries[j].JSON.restEndpoint # <<>> /\ config.RESTURL = <<>>

\* C5: no entry of the mapping carries both an error and Frames
ErrorOrFramesNeverBoth ==
    /\ \A r \in DOMAIN responses : responses[r].Error # Nil => responses[r].Frames = <<>>
    /\ \A i \in Handled : calls[i].res.Error # Nil => calls[i].res.Frames = <<>>

\* a metrics query whose response has a series that converts before the
\* series that does not, and a query that got Frames
ErrorOrFramesWitness ==
    \E i, j \in Handled :
        /\ calls[i].ans = Answer(200, "{}", TRUE, PromResponse("success", <<GoodSeries, BadSeries>>))
        /\ calls[i].res.Error # Nil
        /\ calls[j].res.Error = Nil /\ calls[j].res.Frames # <<>>

\* C10: in the metrics and the log handler, an answer whose HTTP status is
\* not 2xx gives the error that carries the status code and the body, an
\* HTTP 200 whose envelope's status is not "success" gives an error, and
\* Frames come only from an accepted HTTP status with a "success" envelope
UpstreamFailuresBecomeErrors ==
    \A i \in Handled :
        LET c == calls[i]
        IN  (c.handler \in {"prometheus", "loki"} /\ RequestsOf(i) # {} /\ ~c.ans.err) =>
                /\ (c.ans.status < 200 \/ c.ans.status > 299) =>
                        /\ c.res.Error # Nil
                        /\ c.res.Error.code = c.ans.status
                        /\ c.res.Error.detail = c.ans.text
                        /\ c.res.Frames = <<>>
                /\ (c.ans.status = 200 /\ c.ans.ok /\ c.ans.val.Status # "success") =>
                        /\ c.res.Error # Nil
                        /\ c.res.Frames = <<>>
                /\ c.res.Frames # <<>> =>
                        /\ c.ans.status = StatusOK
                        /\ c.ans.ok
                        /\ c.ans.val.Status = "success"

\* handled: a metrics query answered with a 503 and a log query answered
\* with a 200 whose envelope says "error"
UpstreamFailuresWitness ==
    \E i, j \in Handled :
        /\ calls[i].handler = "prometheus" /\ calls[i].ans.status = 503
        /\ calls[i].res.Error.code = 503
        /\ calls[j].handler = "loki" /\ calls[j].ans.status = 200
        /\ calls[j].ans.ok /\ calls[j].ans.val.Status = "error"

\* C14: in the REST handler, an answer whose status is outside 200..299
\* gives the error that carries the status and the body; an answer whose
\* status is in 200..299 is a success, its JSON body converted into Frames;
\* a 2xx body that is no JSON gives an error
RestOutcomeByStatus ==
    \A i \in Handled :
        LET c == calls[i]
            success == c.ans.status >= 200 /\ c.ans.status <= 299
        IN  (c.handler = "rest" /\ RequestsOf(i) # {} /\ ~c.ans.err) =>
                /\ ~success =>
                        /\ ~c.panic
                        /\ c.res.Error # Nil
                        /\ c.res.Error.code = c.ans.status
                        /\ c.res.Error.detail = c.ans.text
                        /\ c.res.Frames = <<>>
                /\ (success /\ ~c.ans.cut /\ c.ans.ok) =>
                        /\ ~c.panic
                        /\ c.res.Error = Nil
                        /\ Len(c.res.Frames) = 1
                /\ (success /\ ~c.ans.cut /\ ~c.ans.ok) =>
                        /\ ~c.panic
                        /\ c.res.Error # Nil
                        /\ c.res.Frames = <<>>

(***************************************************************************)
(* The Prometheus conversion on its own: executeQuery from the decoded     *)
(* response of an HTTP 200 on (lines 115-131)                              *)
(***************************************************************************)
\* the label sets of the series of one response: with a name, with an instance
\* only, with neither, in rotation from any of the three
MetricAt(k) == <<Labels("up", "h1"), Labels("", "h2"), Labels("", "")>>[(k % 3) + 1]
MetricsOf(n) == {[b \in 1..n |-> MetricAt(first + b)] : first \in 0..2}

\* elements of "values": two pairs that convert (one with a fractional
\* timestamp), a value that is no float, a timestamp that is no number, an
\* element with one item
RangeSamples ==
    {<<N(10), S("1")>>, <<N(25), S("2.5")>>, <<N(10), S("abc")>>, <<S("x"), S("1")>>,
     <<N(10)>>}

\* "value" of an instant result: also absent, a value that is no string, and
\* a third item
InstantValues ==
    RangeSamples \cup {<<>>, <<N(10), N(50)>>, <<N(30), S("1.0"), S("x")>>}

\* the ways to cut a sequence of length len into n consecutive blocks
Cuts(len, n) ==
    {c \in [1..len -> 1..n] : \A i, j \in 1..len : i <= j => c[i] <= c[j]}

Block(flat, cut, b) ==
    LET at == {i \in 1..Len(flat) : cut[i] = b}
    IN  IF at = {} THEN <<>>
        ELSE SubSeq(flat, CHOOSE i \in at : \A j \in at : i <= j,
                          CHOOSE i \in at : \A j \in at : j <= i)

\* a range query's result: flat cut into n series
RangeResult(n, metric, flat, cut) ==
    [b \in 1..n |-> PromSeries(metric[b], Block(flat, cut, b), <<>>)]

\* an instant query's result of n series
InstantResult(n, metric, value) ==
    [b \in 1..n |-> PromSeries(metric[b], <<>>, value[b])]

PromConversion(isRangeQuery, result) ==
    [done |-> FALSE, isRangeQuery |-> isRangeQuery, resp |-> PromResponse("success", result)]

PromQuery(isRangeQuery) ==
    DataQuery("A", QueryJSON("prometheus", "up", "", <<>>), 1000,
              IF isRangeQuery THEN 2000 ELSE 1000, 0)

InitPromConvert ==
    /\ config = NoCredentials(<<"http://prom">>, <<>>, <<>>)
    /\ pc = "idle"
    /\ queries = <<>>
    /\ idx = 1
    /\ responses = EmptyMap
    /\ requests = <<>>
    /\ calls = <<>>
    /\ ctx = Background
    /\ served = <<>>
    /\ \E n \in 0..MaxSeries :
        \E metric \in MetricsOf(n) :
            \/ \E len \in 0..MaxSamples :
                \E flat \in [1..len -> RangeSamples] :
                    \E cut \in Cuts(len, n) :
                        convIn = PromConversion(TRUE, RangeResult(n, metric, flat, cut))
            \/ \E value \in [1..n -> InstantValues] :
                convIn = PromConversion(FALSE, InstantResult(n, metric, value))
    /\ convOut = NoConversion

\* executeQuery on an HTTP 200 whose body decodes to convIn.resp
PromConvert ==
    /\ ~convOut.done
    /\ convOut' =
        [done |-> TRUE,
         conv |-> PromConvertToDataFrames(convIn.resp, convIn.isRangeQuery),
         res |-> PromExecuteQuery(config, PromQuery(convIn.isRangeQuery),
                                  PromQuery(convIn.isRangeQuery).JSON,
                                  Answer(200, "{}", TRUE, convIn.resp)).res]
    /\ UNCHANGED <<config, ctx, served, pc, queries, idx, responses, requests, calls, convIn>>

SpecPromConvert == InitPromConvert /\ [][PromConvert]_vars

(***************************************************************************)
(* The request of the Prometheus handler on its own (lines 50-88)          *)
(***************************************************************************)
\* instants and intervals in milliseconds: whole seconds and not
Instants == {0, 500, 1000, 2000}
Intervals == {0, 500, 1000, 1500, 15000, 30000}

PromShapings ==
    {[done |-> FALSE,
      query |-> DataQuery("A", QueryJSON("prometheus", "up", "", <<>>), from, to, interval)] :
        from \in Instants, to \in Instants, interval \in Intervals}

InitPromRequest ==
    /\ config = NoCredentials(<<"http://prom">>, <<>>, <<>>)
    /\ pc = "idle"
    /\ queries = <<>>
    /\ idx = 1
    /\ responses = EmptyMap
    /\ requests = <<>>
    /\ calls = <<>>
    /\ ctx = Background
    /\ served = <<>>
    /\ convIn \in PromShapings
    /\ convOut = NoConversion

\* the request executeQuery hands to client.Do for convIn.query
PromShape ==
    /\ ~convOut.done
    /\ convOut' = [done |-> TRUE,
                   req |-> PromRequest(config, convIn.query, convIn.query.JSON)]
    /\ UNCHANGED <<config, ctx, served, pc, queries, idx, responses, requests, calls, convIn>>

SpecPromRequest == InitPromRequest /\ [][PromShape]_vars

(***************************************************************************)
(* Properties of the metrics request (specification SpecPromRequest)       *)
(***************************************************************************)
\* C6: the shape of the metrics request follows from the time range alone:
\* From # To gives a range request to <base>/api/v1/query_range with query,
\* start, end and step, step being the query's interval or 15 seconds when
\* the interval is zero; From = To gives an instant request to
\* <base>/api/v1/query with query and time, the end of the range, only
PromRequestShape ==
    convOut.done =>
        LET q == convIn.query
            r == convOut.req
        IN  IF q.From # q.To
            THEN /\ r.url = config.PrometheusURL \o <<"/api/v1/query_range">>
                 /\ DOMAIN r.params = {"query", "start", "end", "step"}
                 /\ r.params["query"] = Verbatim(q.JSON.promQL)
                 /\ r.params["start"] = FormatInt(UnixOf(q.From), "")
                 /\ r.params["end"] = FormatInt(UnixOf(q.To), "")
                 /\ r.params["step"].dec
                 /\ r.params["step"].s = "s"
                 /\ r.params["step"].n * 1000 = (IF q.Interval = 0 THEN 15000 ELSE q.Interval)
            ELSE /\ r.url = config.PrometheusURL \o <<"/api/v1/query">>
                 /\ DOMAIN r.params = {"query", "time"}
                 /\ r.params["query"] = Verbatim(q.JSON.promQL)
                 /\ r.params["time"] = FormatInt(UnixOf(q.To), "")

(***************************************************************************)
(* Properties of the metrics conversion (specification SpecPromConvert)    *)
(***************************************************************************)
\* the instant a timestamp of the wire format (tenths of a second) names,
\* and the same cut to whole seconds
ExactTime(x) == TimeAt(x \div 10, (x % 10) * 100000000)
SecondsOnly(x) == TimeAt(x \div 10, 0)

IsPair(val) == Len(val) >= 2

\* the rows of the Frames of a range response: as many as the series has
\* elements, row i with the timestamp, exact or cut to whole seconds, and
\* the parsed value of pair i
RangeRows(exact) ==
    LET results == convIn.resp.Result
        frames == convOut.res.Frames
    IN  /\ Len(frames) = Len(results)
        /\ \A b \in 1..Len(results) :
                LET vals == results[b].Values
                    time == frames[b].Fields[1].Values
                    value == frames[b].Fields[2].Values
                IN  /\ Len(time) = Len(vals)
                    /\ Len(value) = Len(vals)
                    /\ \A i \in 1..Len(vals) :
                            IsPair(vals[i]) =>
                                /\ time[i] = IF exact THEN ExactTime(vals[i][1].n)
                                             ELSE SecondsOnly(vals[i][1].n)
                                /\ value[i] = ParseFloatValue(vals[i][2].s)

RangeConverted == convOut.done /\ convIn.isRangeQuery /\ convOut.res.Error = Nil

\* C7 as stated: a series of N pairs gives N rows of time and of value, row
\* i holding the timestamp and the parsed value of pair i
RangeRowsExact == RangeConverted => RangeRows(TRUE)

\* C7: a series of N pairs gives N rows of time and of value, row i holding
\* the timestamp of pair i cut to whole seconds and the parsed value of pair i
RangeRowsWholeSeconds == RangeConverted => RangeRows(FALSE)

\* a converted range response with a series of two pairs, the second at 2.5 s
RangeRowsWitness ==
    /\ RangeConverted
    /\ \E b \in 1..Len(convIn.resp.Result) :
            /\ convIn.resp.Result[b].Values = <<<<N(10), S("1")>>, <<N(25), S("2.5")>>>>
            /\ convOut.res.Frames[b].Fields[1].Values = <<TimeAt(1, 0), TimeAt(2, 0)>>
            /\ convOut.res.Frames[b].Fields[2].Values = <<10, 25>>

\* a pair whose timestamp is no number or whose value string is no float
Unparsable(val) ==
    /\ IsPair(val)
    /\ \/ val[1].k # "num"
       \/ val[2].k = "str" /\ ~ParseFloatOk(val[2].s)

\* the samples of result series b that the conversion reads
SamplesRead(b) ==
    LET result == convIn.resp.Result[b]
    IN  IF convIn.isRangeQuery THEN {result.Values[i] : i \in 1..Len(result.Values)}
        ELSE {result.Value}

\* C8: a sample of any series whose value string is no float, or whose
\* timestamp is no number, fails the whole query: an error and no Frame,
\* whatever series converted before it
UnparsableSampleFailsQuery ==
    (convOut.done /\ \E b \in 1..Len(convIn.resp.Result) : \E val \in SamplesRead(b) : Unparsable(val)) =>
        /\ convOut.res.Error # Nil
        /\ convOut.res.Frames = <<>>
        /\ convOut.conv.frames = <<>>

\* a range response whose first series converts and whose second series
\* has a value that is no float
UnparsableSampleWitness ==
    /\ convOut.done
    /\ convIn.isRangeQuery
    /\ Len(convIn.resp.Result) = 2
    /\ convIn.resp.Result[1].Values = <<<<N(10), S("1")>>>>
    /\ convIn.resp.Result[2].Values = <<<<N(25), S("2.5")>>, <<N(10), S("abc")>>>>
    /\ convOut.res.Error # Nil

\* the display name of a series
DisplayName(metric) ==
    IF "__name__" \in DOMAIN metric THEN metric["__name__"]
    ELSE IF "instance" \in DOMAIN metric THEN metric["instance"]
    ELSE "series"

\* C9: an instant response gives one Frame of one row per result series,
\* the numeric Field named by the __name__ label, else by the instance
\* label, else "series"; a series whose value has fewer than two elements
\* fails the query
InstantOneRowPerSeries ==
    (convOut.done /\ ~convIn.isRangeQuery) =>
        LET results == convIn.resp.Result
            res == convOut.res
        IN  /\ (\E b \in 1..Len(results) : Len(results[b].Value) < 2) =>
                    /\ res.Error # Nil
                    /\ res.Frames = <<>>
            /\ res.Error = Nil =>
                    /\ Len(res.Frames) = Len(results)
                    /\ \A b \in 1..Len(results) :
                            LET fields == res.Frames[b].Fields
                            IN  /\ Len(fields) = 2
                                /\ Len(fields[1].Values) = 1
                                /\ Len(fields[2].Values) = 1
                                /\ fields[2].DisplayNameFromDS = DisplayName(results[b].Metric)

\* a converted instant response of two series, one named by __name__ and
\* one by its instance label
InstantOneRowWitness ==
    /\ convOut.done
    /\ ~convIn.isRangeQuery
    /\ convOut.res.Error = Nil
    /\ Len(convOut.res.Frames) = 2
    /\ convOut.res.Frames[1].Fields[2].DisplayNameFromDS = "up"
    /\ convOut.res.Frames[2].Fields[2].DisplayNameFromDS = "h2"

(***************************************************************************)
(* The Loki conversion on its own: executeQuery from the decoded response  *)
(* of an HTTP 200 on (lines 123-147)                                       *)
(***************************************************************************)
\* the label sets of the streams of one response: with a job, with an
\* instance only, with two labels that are neither, with none, in rotation
StreamAt(k) ==
    <<[l \in {"job"} |-> "varlogs"],
      [l \in {"instance"} |-> "h1"],
      [l \in {"app", "env"} |-> IF l = "app" THEN "shop" ELSE "prod"],
      EmptyMap>>[(k % 4) + 1]
StreamsOf(n) == {[b \in 1..n |-> StreamAt(first + b)] : first \in 0..3}

\* elements of "values": two entries that are kept, a timestamp that is no
\* integer, an element with one item
LokiEntrySet ==
    {<<"1", "line a">>, <<"1500000000", "line b">>, <<"x", "line c">>, <<"1">>}

LokiResult(n, stream, flat, cut) ==
    [b \in 1..n |-> LokiStream(stream[b], Block(flat, cut, b))]

LokiQuery == DataQuery("A", QueryJSON("loki", "", "{job}", <<>>), 1000, 2000, 0)

InitLokiConvert ==
    /\ config = NoCredentials(<<>>, <<"http://loki">>, <<>>)
    /\ pc = "idle"
    /\ queries = <<>>
    /\ idx = 1
    /\ responses = EmptyMap
    /\ requests = <<>>
    /\ calls = <<>>
    /\ ctx = Background
    /\ served = <<>>
    /\ convOut = NoConversion
    /\ \E n \in 0..MaxStreams :
        \E stream \in StreamsOf(n) :
            \E len \in 0..MaxEntries :
                \E flat \in [1..len -> LokiEntrySet] :
                    \E cut \in Cuts(len, n) :
                        convIn = [done |-> FALSE,
                                  resp |-> LokiResponse("success",
                                                        LokiResult(n, stream, flat, cut))]

\* executeQuery on an HTTP 200 whose body decodes to convIn.resp
LokiConvert ==
    /\ ~convOut.done
    /\ \E out \in LokiExecuteQuery(config, LokiQuery, LokiQuery.JSON,
                                    Answer(200, "{}", TRUE, convIn.resp)) :
            convOut' = [done |-> TRUE, res |-> out.res]
    /\ UNCHANGED <<config, ctx, served, pc, queries, idx, responses, requests, calls, convIn>>

SpecLokiConvert == InitLokiConvert /\ [][LokiConvert]_vars

(***************************************************************************)
(* Properties of the Loki conversion (specification SpecLokiConvert)       *)
(***************************************************************************)
\* an entry the conversion keeps: two elements at least and a timestamp
\* that is an integer
ValidEntry(val) == Len(val) >= 2 /\ ParseIntOk(val[1])
HasValidEntry(result) == \E i \in 1..Len(result.Values) : ValidEntry(result.Values[i])

\* the time and the line of the entries of a sequence
RECURSIVE EntryTimes(_)
EntryTimes(vals) ==
    IF vals = <<>> THEN <<>>
    ELSE <<TimeAt(ParseIntValue(Head(vals)[1]) \div 1000000000,
                  ParseIntValue(Head(vals)[1]) % 1000000000)>> \o EntryTimes(Tail(vals))
RECURSIVE EntryLines(_)
EntryLines(vals) ==
    IF vals = <<>> THEN <<>> ELSE <<Head(vals)[2]>> \o EntryLines(Tail(vals))

\* C11: an entry with fewer than two elements or with a timestamp that is
\* no integer is skipped and fails nothing; the Frames are, in order, one
\* per stream with a valid entry, tagged log-lines, the time and the line
\* Field holding the valid entries of the stream in input order; a stream
\* without a valid entry gives no Frame
LokiFramesHoldValidEntries ==
    convOut.done =>
        LET kept == SelectSeq(convIn.resp.Result, HasValidEntry)
            frames == convOut.res.Frames
        IN  /\ convOut.res.Error = Nil
            /\ Len(frames) = Len(kept)
            /\ \A b \in 1..Len(kept) :
                    LET valid == SelectSeq(kept[b].Values, ValidEntry)
                    IN  /\ frames[b].Type = FrameTypeLogLines
                        /\ Len(frames[b].Fields) = 2
                        /\ frames[b].Fields[1].Values = EntryTimes(valid)
                        /\ frames[b].Fields[2].Values = EntryLines(valid)
                        /\ frames[b].Fields[2].Labels = kept[b].Stream

\* a converted response of two streams: the first without a valid entry,
\* the second with a valid entry after one that is skipped
LokiFramesWitness ==
    /\ convOut.done
    /\ Len(convIn.resp.Result) = 2
    /\ convIn.resp.Result[1].Values = <<<<"1">>>>
    /\ convIn.resp.Result[2].Values = <<<<"x", "line c">>, <<"1500000000", "line b">>>>
    /\ Len(convOut.res.Frames) = 1
    /\ convOut.res.Frames[1].Fields[2].Values = <<"line b">>

(***************************************************************************)
(* The request of the REST handler on its own (lines 52-90)                *)
(***************************************************************************)
Slashes(k) == [i \in 1..k |-> "/"]

RestMethods == {"", "get", "GET", "post", "POST", "Put", "patch", "delete"}
RestBodies == {"", "{}"}

\* queryModel.RESTHeaders: none, a Content-Type in two spellings, an empty
\* Content-Type, another header
RestHeaderSets ==
    {EmptyMap,
     [h \in {"Content-Type"} |-> "text/plain"],
     [h \in {"content-type"} |-> "text/plain"],
     [h \in {"Content-Type"} |-> ""],
     [h \in {"X-Custom"} |-> "1"]}

RestQuery(endpoint, method, headers, body) ==
    DataQuery("A",
              [QueryJSON("rest", "", "", endpoint) EXCEPT
                    !.restMethod = method, !.restHeaders = headers, !.restBody = body],
              1000, 2000, 1000)

InitRestRequest ==
    /\ pc = "idle"
    /\ queries = <<>>
    /\ idx = 1
    /\ responses = EmptyMap
    /\ requests = <<>>
    /\ calls = <<>>
    /\ ctx = Background
    /\ served = <<>>
    /\ convOut = NoConversion
    /\ \E k \in 0..MaxSlashes :
            config = NoCredentials(<<>>, <<>>, <<"http://rest">> \o Slashes(k))
    /\ \E k \in 0..MaxSlashes :
        \E method \in RestMethods :
            \E headers \in RestHeaderSets :
                \E body \in RestBodies :
                    convIn = [done |-> FALSE,
                              query |-> RestQuery(Slashes(k) \o <<"v1">>, method, headers, body)]

\* the request executeQuery hands to client.Do for convIn.query
RestShape ==
    /\ ~convOut.done
    /\ \E req \in RestRequest(config, convIn.query, convIn.query.JSON) :
            convOut' = [done |-> TRUE, req |-> req]
    /\ UNCHANGED <<config, ctx, served, pc, queries, idx, responses, requests, calls, convIn>>

SpecRestRequest == InitRestRequest /\ [][RestShape]_vars

(***************************************************************************)
(* Properties of the REST request (specification SpecRestRequest)          *)
(***************************************************************************)
\* str without the "/" at its end, and without the "/" at its start
RECURSIVE WithoutTrailingSlashes(_)
WithoutTrailingSlashes(str) ==
    IF Len(str) > 0 /\ str[Len(str)] = "/"
    THEN WithoutTrailingSlashes(SubSeq(str, 1, Len(str) - 1)) ELSE str
RECURSIVE WithoutLeadingSlashes(_)
WithoutLeadingSlashes(str) ==
    IF Len(str) > 0 /\ str[1] = "/" THEN WithoutLeadingSlashes(Tail(str)) ELSE str

\* C12: the URL of the request is the base URL without the "/" at its end,
\* one "/", and the endpoint without the "/" at its start, however many
\* "/" the base URL ends with and the endpoint starts with
RestURLOneSeparator ==
    convOut.done =>
        convOut.req.url = WithoutTrailingSlashes(config.RESTURL) \o <<"/">>
                            \o WithoutLeadingSlashes(convIn.query.JSON.restEndpoint)

\* the method names of the model in upper case
UpperCased(method) ==
    CASE method \in {"get", "GET"} -> "GET"
      [] method \in {"post", "POST"} -> "POST"
      [] method = "Put" -> "PUT"
      [] method = "patch" -> "PATCH"
      [] method = "delete" -> "DELETE"

\* the Content-Type the per-query headers set, <<>> when they set none
\* (at most one of the headers of a query of the model is a Content-Type)
CallerContentType(headers) ==
    IF "Content-Type" \in DOMAIN headers THEN <<headers["Content-Type"]>>
    ELSE IF "content-type" \in DOMAIN headers THEN <<headers["content-type"]>>
    ELSE <<>>

\* the method and the body of the request are as C13 says, and its
\* Content-Type is what the per-query headers set (an empty value counting
\* as set when emptyCounts), application/json when they set none and a
\* body is attached
RestShaping(emptyCounts) ==
    LET q == convIn.query.JSON
        r == convOut.req
        attached == r.method \in {"POST", "PUT", "PATCH"} /\ q.restBody # ""
        caller == CallerContentType(q.restHeaders)
    IN  /\ r.method = IF q.restMethod = "" THEN "GET" ELSE UpperCased(q.restMethod)
        /\ r.body = IF attached THEN q.restBody ELSE ""
        /\ IF caller # <<>> /\ (emptyCounts \/ caller # <<"">>)
           THEN r.header["Content-Type"] = caller
           ELSE IF attached THEN r.header["Content-Type"] = <<"application/json">>
           ELSE \/ "Content-Type" \notin DOMAIN r.header
                \/ r.header["Content-Type"] = caller

ArrayItems ==
    {JObj([key \in {"time", "value"} |->
            IF key = "time" THEN S("2024-01-01T00:00:00Z") ELSE N(50)]),
     JObj([key \in {"ts", "time", "value"} |->
            CASE key = "ts" -> N(20)
              [] key = "time" -> S("2024-01-01T00:01:00Z")
              [] key = "value" -> N(70)]),
     JObj([key \in {"value"} |-> N(90)]),
     JObj([key \in {"a", "b"} |-> IF key = "a" THEN N(10) ELSE S("2.5")]),
     JObj([key \in {"name"} |-> S("x")]),
     N(30)}

\* bodies that are no array and hold none: primitives, objects with one key,
\* two keys and no key, an object whose "data" is no array
OtherBodies ==
    {N(420), S("ok"), JObj([key \in {"cpu"} |-> N(420)]), JObj(EmptyMap),
     JObj([key \in {"cpu", "status"} |-> IF key = "cpu" THEN N(420) ELSE S("ok")]),
     JObj([key \in {"data"} |-> S("x")])}

\* an object that holds the array arr under "data", alone or next to
\* another key
Envelopes(arr) ==
    {JObj([key \in {"data"} |-> JArr(arr)]),
     JObj([key \in {"data", "status"} |-> IF key = "data" THEN JArr(arr) ELSE S("ok")])}

RestConvertQuery == RestQuery(<<"v1">>, "", EmptyMap, "")

InitRestConvert ==
    /\ config = NoCredentials(<<>>, <<>>, <<"http://rest">>)
    /\ pc = "idle"
    /\ queries = <<>>
    /\ idx = 1
    /\ responses = EmptyMap
    /\ requests = <<>>
    /\ calls = <<>>
    /\ ctx = Background
    /\ served = <<>>
    /\ convOut = NoConversion
    /\ \/ \E len \in 0..MaxRows :
            \E arr \in [1..len -> ArrayItems] :
                \/ convIn = [done |-> FALSE, json |-> JArr(arr)]
                \/ \E env \in Envelopes(arr) : convIn = [done |-> FALSE, json |-> env]
       \/ \E body \in OtherBodies : convIn = [done |-> FALSE, json |-> body]

\* executeQuery, twice, on an HTTP 200 whose body decodes to convIn.json
RestConvert ==
    /\ ~convOut.done
    /\ \E out, again \in RestExecuteQuery(config, RestConvertQuery, RestConvertQuery.JSON,
                                           Answer(200, "{}", TRUE, convIn.json)) :
            convOut' = [done |-> TRUE, panic |-> out.panic, res |-> out.res,
                        again |-> [panic |-> again.panic, res |-> again.res]]
    /\ UNCHANGED <<config, ctx, served, pc, queries, idx, responses, requests, calls, convIn>>

SpecRestConvert == InitRestConvert /\ [][RestConvert]_vars

(***************************************************************************)
(* Properties of the REST conversion (specification SpecRestConvert)       *)
(***************************************************************************)
\* the array of the body: the body itself or its "data" member; <<>> for a
\* body without one
BodyArray ==
    LET json == convIn.json
    IN  IF json.k = "arr" THEN json.items
        ELSE IF json.k = "obj" /\ "data" \in DOMAIN json.fields
                /\ json.fields["data"].k = "arr"
        THEN json.fields["data"].items
        ELSE <<>>

HasArray ==
    \/ convIn.json.k = "arr"
    \/ /\ convIn.json.k = "obj"
       /\ "data" \in DOMAIN convIn.json.fields
       /\ convIn.json.fields["data"].k = "arr"

\* the body holds an array of objects: the handler takes an array for one
\* when its first element is an object
ObjectsArray == HasArray /\ BodyArray # <<>> /\ BodyArray[1].k = "obj"

\* the rows of the array: its elements that are objects, in order
IsObject(item) == item.k = "obj"
Rows == SelectSeq(BodyArray, IsObject)

RecognizedKeys == {"time", "timestamp", "date", "ts", "datetime"}
CarriesTimeKey(row) == DOMAIN row.fields \cap RecognizedKeys # {}
TimeIndexed == \E i \in 1..Len(Rows) : CarriesTimeKey(Rows[i])

FieldsHaveEqualLength ==
    (convOut.done /\ ObjectsArray) =>
        /\ ~convOut.panic
        /\ \A k \in 1..Len(convOut.res.Frames) :
                LET fields == convOut.res.Frames[k].Fields
                IN  \A f, g \in 1..Len(fields) :
                        Len(fields[f].Values) = Len(fields[g].Values)

\* the time of a row that carries a time key: parseTimestamp of the value
\* of the first of time, timestamp, date, ts, datetime it carries
KeyTime(row) ==
    LET found == {i \in 1..Len(TimeKeys) : TimeKeys[i] \in DOMAIN row.fields}
        first == CHOOSE i \in found : \A j \in found : i <= j
    IN  parseTimestamp(row.fields[TimeKeys[first]])

\* C17: in a time-indexed array, row i (from 0) has the time of the key of
\* highest priority it carries, and without a key the time From + i *
\* Interval, whether it comes before or after the first row with a key
RowTimesParsedOrSynthesized ==
    (convOut.done /\ ObjectsArray /\ TimeIndexed) =>
        /\ ~convOut.panic
        /\ LET times == convOut.res.Frames[1].Fields[1].Values
               query == RestConvertQuery
           IN  /\ Len(times) = Len(Rows)
               /\ \A i \in 1..Len(Rows) :
                    times[i] = IF CarriesTimeKey(Rows[i]) THEN KeyTime(Rows[i])
                               ELSE TimeOfMillis(query.From + (i - 1) * query.Interval)

\* the keys of a row that are no time key and whose value is a number or a
\* string that parses as one
NumericKeysOf(row) ==
    {key \in DOMAIN row.fields \ RecognizedKeys :
        \/ row.fields[key].k = "num"
        \/ row.fields[key].k = "str" /\ ParseFloatOk(row.fields[key].s)}

\* C18: the numeric Fields of the Frame of an array of objects are the
\* numeric keys of its first row that are no time key, one Field each:
\* later rows add none, and a first row without one gives none
NumericFieldsFromFirstRow ==
    (convOut.done /\ ObjectsArray) =>
        /\ ~convOut.panic
        /\ LET fields == convOut.res.Frames[1].Fields
               numeric == {f \in 1..Len(fields) : fields[f].Name # "time"}
           IN  /\ {fields[f].Name : f \in numeric} = NumericKeysOf(Rows[1])
               /\ Cardinality(numeric) = Cardinality(NumericKeysOf(Rows[1]))

\* the names, in order, of the Fields of the Frames of a result, with their
\* display names and the tag of the Frame
Structure(out) ==
    [panic |-> out.panic,
     frames |-> [k \in 1..Len(out.res.Frames) |->
                    [type |-> out.res.Frames[k].Type,
                     fields |-> [f \in 1..Len(out.res.Frames[k].Fields) |->
                                    [name |-> out.res.Frames[k].Fields[f].Name,
                                     display |-> out.res.Frames[k].Fields[f].DisplayNameFromDS]]]]]

\* C19: the same query run twice against the same response gives Frames of
\* the same structure: the same Field names in the same order, the same
\* display names
SameStructureTwice ==
    convOut.done => Structure(convOut) = Structure(convOut.again)

\* C20: an empty array gives, without an error, one Frame with one empty
\* Field named "value"; an array with elements none of which is an object
\* gives one Frame with one Field named "value" that holds the elements
\* in order
PlainArrayIsOneValueField ==
    (convOut.done /\ HasArray /\ \A i \in 1..Len(BodyArray) : BodyArray[i].k # "obj") =>
        /\ ~convOut.panic
        /\ convOut.res.Error = Nil
        /\ Len(convOut.res.Frames) = 1
        /\ Len(convOut.res.Frames[1].Fields) = 1
        /\ convOut.res.Frames[1].Fields[1].Name = "value"
        /\ convOut.res.Frames[1].Fields[1].Values = BodyArray

\* the results executeQuery can have on an HTTP 200 whose body decodes to json
RestOutcomes(json) ==
    {[panic |-> out.panic, res |-> out.res] :
        out \in RestExecuteQuery(config, RestConvertQuery, RestConvertQuery.JSON,
                                 Answer(200, "{}", TRUE, json))}

\* the body is an object whose "data" member is an array
IsEnvelope ==
    /\ convIn.json.k = "obj"
    /\ "data" \in DOMAIN convIn.json.fields
    /\ convIn.json.fields["data"].k = "arr"

\* the two rows of the scenario: time and value 5, time and value 7
ScenarioRows ==
    <<JObj([key \in {"time", "value"} |->
            IF key = "time" THEN S("2024-01-01T00:00:00Z") ELSE N(50)]),
      JObj([key \in {"ts", "time", "value"} |->
            CASE key = "ts" -> N(20)
              [] key = "time" -> S("2024-01-01T00:01:00Z")
              [] key = "value" -> N(70)])>>

\* obj with its key "data" renamed to "payload"
WithoutDataKey(obj) ==
    [key \in (DOMAIN obj \ {"data"}) \cup {"payload"} |->
        IF key = "payload" THEN obj["data"] ELSE obj[key]]

\* C21: an object whose "data" member is an array has the results of that
\* array on its own, whatever other keys the object has; the two rows of
\* the scenario give one time-series Frame of 2 rows with values 5 and 7;
\* an object whose "data" member is no array has the result of a plain
\* object: that of the same object with the key under another name
EnvelopeIsArrayPath ==
    (convOut.done /\ convIn.json.k = "obj" /\ "data" \in DOMAIN convIn.json.fields) =>
        IF IsEnvelope
        THEN /\ RestOutcomes(convIn.json) = RestOutcomes(JArr(BodyArray))
             /\ [panic |-> convOut.panic, res |-> convOut.res] \in RestOutcomes(JArr(BodyArray))
             /\ BodyArray = ScenarioRows =>
                    /\ ~convOut.panic
                    /\ Len(convOut.res.Frames) = 1
                    /\ convOut.res.Frames[1].Type = FrameTypeTimeSeriesMany
                    /\ Len(convOut.res.Frames[1].Fields) = 2
                    /\ Len(convOut.res.Frames[1].Fields[1].Values) = 2
                    /\ convOut.res.Frames[1].Fields[2].Values = <<50, 70>>
        ELSE LET plain == RestOutcomes(JObj(WithoutDataKey(convIn.json.fields)))
             IN  /\ convOut.panic <=> \A o \in plain : o.panic
                 /\ \A o \in plain :
                        Len(o.res.Frames) = Len(convOut.res.Frames)

\* the scenario's rows under "data", next to another key, converted to a
\* time-series Frame with the values 5 and 7
EnvelopeWitness ==
    /\ convOut.done
    /\ IsEnvelope
    /\ "status" \in DOMAIN convIn.json.fields
    /\ BodyArray = ScenarioRows
    /\ ~convOut.panic
    /\ convOut.res.Frames[1].Fields[2].Values = <<50, 70>>

\* C22: an object without a "data" array gives, without an error, one table
\* Frame: no time-series tag, one Field for each key of the object, named
\* after it and holding its value as it is, in one row; an object without
\* keys gives a Frame without Fields
ObjectIsOneRowTable ==
    (convOut.done /\ convIn.json.k = "obj" /\ ~IsEnvelope) =>
        /\ ~convOut.panic
        /\ convOut.res.Error = Nil
        /\ Len(convOut.res.Frames) = 1
        /\ LET frame == convOut.res.Frames[1]
               obj == convIn.json.fields
           IN  /\ frame.Type # FrameTypeTimeSeriesMany
               /\ Len(frame.Fields) = Cardinality(DOMAIN obj)
               /\ {frame.Fields[f].Name : f \in 1..Len(frame.Fields)} = DOMAIN obj
               /\ \A f \in 1..Len(frame.Fields) :
                    frame.Fields[f].Values = <<obj[frame.Fields[f].Name]>>

(***************************************************************************)
(* parseTimestamp on its own                                               *)
(***************************************************************************)
\* values of a time key: RFC 3339 strings, integer strings below, at and
\* above 1e12, other strings, numbers below, at and above 1e12 with and
\* without a fraction, and values that are neither
TimestampValues ==
    {S(str) : str \in RFC3339Strings \cup IntStrings \cup WideIntStrings
                        \cup {"2.5", "1.0", "abc", ""}}
    \cup {N(x) : x \in {-30, 0, 10, 25, 15000, 15007, 2000000000}}
    \cup {NWide(hi, lo, tenth) : hi \in {999999, 1000000, 1000001, 1700000},
                                 lo \in {0, 1, 123, 999999}, tenth \in {0, 5}}
    \cup {JNull, JBool(TRUE), JBool(FALSE), JObj(EmptyMap), JArr(<<>>)}

InitTimestamp ==
    /\ config = NoCredentials(<<>>, <<>>, <<"http://rest">>)
    /\ pc = "idle"
    /\ queries = <<>>
    /\ idx = 1
    /\ responses = EmptyMap
    /\ requests = <<>>
    /\ calls = <<>>
    /\ ctx = Background
    /\ served = <<>>
    /\ convOut = NoConversion
    /\ \E val \in TimestampValues : convIn = [done |-> FALSE, val |-> val]

\* timestamp = h.parseTimestamp(val) (line 200)
ParseTimestamp ==
    /\ ~convOut.done
    /\ convOut' = [done |-> TRUE, t |-> parseTimestamp(convIn.val)]
    /\ UNCHANGED <<config, ctx, served, pc, queries, idx, responses, requests, calls, convIn>>

SpecTimestamp == InitTimestamp /\ [][ParseTimestamp]_vars

(***************************************************************************)
(* Properties of parseTimestamp (specification SpecTimestamp)              *)
(***************************************************************************)
\* the value is an integer string or a number: its integer part, and the
\* tenths of a number beyond it
Countable ==
    \/ convIn.val.k = "num"
    \/ convIn.val.k = "str" /\ convIn.val.s \in IntStrings \cup WideIntStrings

Whole == IF convIn.val.k = "num" THEN Int64OfNumber(convIn.val) ELSE ParseInt64(convIn.val.s)

Tenths == IF convIn.val.k = "num" THEN TenthsOfNumber(convIn.val) ELSE 0

\* the value is greater than 10^12
Exceeds1e12 ==
    \/ Whole.hi > 1000000
    \/ Whole.hi = 1000000 /\ (Whole.lo > 0 \/ Tenths > 0)

\* the instant Whole + frac tenths, counted in milliseconds or in seconds
\* since the epoch
InstantRead(frac) ==
    IF Exceeds1e12
    THEN TimeAt(Whole.hi * 1000 + Whole.lo \div 1000,
                (Whole.lo % 1000) * 1000000 + frac * 100000)
    ELSE TimeUnixWide(Whole, frac * 100000000)

\* what parseTimestamp is to give when the fraction counts (exact) or not
TimestampRead(exact) ==
    convOut.done =>
        IF convIn.val.k = "str" /\ convIn.val.s \in RFC3339Strings
        THEN convOut.t = ParseRFC3339(convIn.val.s)
        ELSE IF Countable THEN convOut.t = InstantRead(IF exact THEN Tenths ELSE 0)
        ELSE convOut.t = TimeNow

\* C23: parseTimestamp always gives a time: that of an RFC 3339 string; for
\* an integer string or a number, the instant that many milliseconds after
\* the epoch when the value is greater than 10^12 and that many seconds
\* otherwise (10^12 itself is seconds); the current instant for every other
\* value
TimestampReadExactly == TimestampRead(TRUE)

\* C23, amended: as above, a number counting by its integer part only
TimestampReadWhole == TimestampRead(FALSE)

\* the number 1000000000000.5 read as 10^12 milliseconds
TimestampWitness ==
    /\ convOut.done
    /\ convIn.val = NWide(1000000, 0, 5)
    /\ convOut.t = TimeAt(1000000000, 0)

(***************************************************************************)
(* datasource.go: CheckHealth and CallResource; the three proxies          *)
(***************************************************************************)
\* a checkHealth that takes every 2xx status for healthy
checkHealthAny2xx(cfg, ans) ==
    LET req == Request("GET", cfg.PrometheusURL \o <<"/-/healthy">>, EmptyMap,
                       addAuthHeaders(cfg, EmptyMap), "")
    IN  IF ans.err THEN [err |-> Errorf("transport error", 0, ""), reqs |-> <<req>>]
        ELSE IF ans.status < 200 \/ ans.status >= 300
        THEN [err |-> Errorf("health check returned status", ans.status, ""),
              reqs |-> <<req>>]
        ELSE [err |-> Nil, reqs |-> <<req>>]

\* checkHealth (PrometheusHandler), given the upstream's answer: the error it
\* returns and the request it gave to client.Do
checkHealth(cfg, ans) ==
    LET req == Request("GET", cfg.PrometheusURL \o <<"/-/healthy">>, EmptyMap,
                       addAuthHeaders(cfg, EmptyMap), "")
    IN  IF ans.err THEN [err |-> Errorf("transport error", 0, ""), reqs |-> <<req>>]
        ELSE IF ans.status # StatusOK
        THEN [err |-> Errorf("health check returned status", ans.status, ""),
              reqs |-> <<req>>]
        ELSE [err |-> Nil, reqs |-> <<req>>]

\* backend.HealthStatusOk and backend.HealthStatusError
HealthStatusOk == "OK"
HealthStatusError == "ERROR"

\* CheckHealth (Datasource): the CheckHealthResult and the requests made
DatasourceCheckHealth(cfg, ans) ==
    IF cfg.PrometheusURL = <<>> /\ cfg.LokiURL = <<>> /\ cfg.RESTURL = <<>>
    THEN [Status |-> HealthStatusError, Message |-> "No data source URLs configured",
          code |-> 0, reqs |-> <<>>]
    ELSE IF cfg.PrometheusURL # <<>> /\ checkHealth(cfg, ans).err # Nil
    THEN [Status |-> HealthStatusError, Message |-> "Prometheus connection issue: ",
          code |-> checkHealth(cfg, ans).err.code, reqs |-> checkHealth(cfg, ans).reqs]
    ELSE [Status |-> HealthStatusOk, Message |-> "Data source is ready", code |-> 0,
          reqs |-> IF cfg.PrometheusURL # <<>> THEN checkHealth(cfg, ans).reqs ELSE <<>>]

\* backend.CallResourceRequest: Path, Method, the raw query of its URL,
\* Headers and Body
ResourceRequest(path, method, rawQuery, headers, body) ==
    [Path |-> path, Method |-> method, RawQuery |-> rawQuery, Headers |-> headers,
     Body |-> body]

\* what a proxy sends after client.Do and io.ReadAll: status 500 when either
\* fails, the upstream's status otherwise
ProxyResponse(ans, proxyReq) ==
    IF ans.err \/ ans.cut THEN [status |-> 500, reqs |-> <<proxyReq>>]
    ELSE [status |-> ans.status, reqs |-> <<proxyReq>>]

\* targetURL with "?" and the raw query, when there is one
WithRawQuery(url, req) == IF req.RawQuery = "" THEN url ELSE url \o <<"?", req.RawQuery>>

\* handlePrometheusResource and handleLokiResource: the caller's headers are
\* copied under their own names, then the credentials are set
handlePrometheusResource(cfg, req, ans) ==
    ProxyResponse(ans, Request(req.Method, WithRawQuery(cfg.PrometheusURL \o <<req.Path>>, req),
                               EmptyMap, addAuthHeaders(cfg, req.Headers), req.Body))

handleLokiResource(cfg, req, ans) ==
    ProxyResponse(ans, Request(req.Method, WithRawQuery(cfg.LokiURL \o <<req.Path>>, req),
                               EmptyMap, addAuthHeaders(cfg, req.Headers), req.Body))

\* handleRESTResource
handleRESTResource(cfg, req, ans) ==
    IF cfg.RESTURL = <<>> THEN [status |-> 400, reqs |-> <<>>]
    ELSE ProxyResponse(ans,
            Request(req.Method,
                    WithRawQuery(TrimSuffixSlash(cfg.RESTURL) \o <<"/">>
                                    \o TrimPrefixSlash(<<req.Path>>), req),
                    EmptyMap, addAuthHeaders(cfg, req.Headers), req.Body))

\* CallResource: the status it sends and the requests it made
CallResource(cfg, req, ans) ==
    CASE req.Path = "prometheus" -> handlePrometheusResource(cfg, req, ans)
      [] req.Path = "loki" -> handleLokiResource(cfg, req, ans)
      [] req.Path = "rest" -> handleRESTResource(cfg, req, ans)
      [] OTHER -> [status |-> 404, reqs |-> <<>>]

(***************************************************************************)
(* The entry points of an instance, one call each: CheckHealth,            *)
(* CallResource, and the request a query handler builds                    *)
(***************************************************************************)
\* instances with every combination of credentials, with and without
\* data-source-level REST headers
EndpointConfigs ==
    {[NoCredentials(urls[1], urls[2], urls[3]) EXCEPT
            !.BearerToken = bearer, !.APIKey = key, !.BasicAuthUser = user,
            !.BasicAuthPass = pass, !.RESTHeaders = headers] :
        urls \in {<<<<"http://prom">>, <<"http://loki">>, <<"http://rest">>>>,
                  <<<<"http://prom">>, <<>>, <<>>>>,
                  <<<<>>, <<"http://loki">>, <<"http://rest">>>>,
                  <<<<>>, <<>>, <<>>>>},
        bearer \in {"", "tok"}, key \in {"", "key"},
        user \in {"", "user"}, pass \in {"", "pass"},
        headers \in {EmptyMap, [h \in {"X-Tenant"} |-> "t1"]}}

\* the upstream's answers to a health probe or a proxied request
EndpointAnswers ==
    {NoAnswer, Answer(200, "ok", FALSE, <<>>), Answer(204, "", FALSE, <<>>),
     Answer(302, "", FALSE, <<>>), Answer(503, "down", FALSE, <<>>)}

\* the headers of a resource call or of a REST query
CallerHeaders == {"none", "X-Tenant", "X-API-Key", "Authorization"}

HeadersOf(name) ==
    [h \in (IF name = "none" THEN {} ELSE {name}) |->
        IF name = "Authorization" THEN "Bearer caller" ELSE "caller"]

\* the queries whose request is looked at
EndpointQueries ==
    {PromQuery(TRUE), LokiQuery}
    \cup {RestQuery(<<"v1">>, "", HeadersOf(name), "") : name \in CallerHeaders}

InitEndpoints ==
    /\ config \in EndpointConfigs
    /\ pc = "idle"
    /\ queries = <<>>
    /\ idx = 1
    /\ responses = EmptyMap
    /\ requests = <<>>
    /\ calls = <<>>
    /\ ctx = Background
    /\ served = <<>>
    /\ convIn = NoConversion
    /\ convOut = NoConversion

\* CheckHealth is called
CheckHealth ==
    /\ ~convOut.done
    /\ \E ans \in EndpointAnswers :
        LET result == DatasourceCheckHealth(config, ans)
        IN  /\ convIn' = [done |-> FALSE, op |-> "health",
                          ans |-> IF result.reqs = <<>> THEN NoAnswer ELSE ans]
            /\ convOut' = [done |-> TRUE, reqs |-> result.reqs, status |-> result.Status,
                           code |-> result.code]
    /\ UNCHANGED <<config, ctx, served, pc, queries, idx, responses, requests, calls>>

\* CallResource is called
CallResourceCalled ==
    /\ ~convOut.done
    /\ \E path \in {"prometheus", "loki", "rest", "other"}, name \in CallerHeaders,
          ans \in {NoAnswer, Answer(200, "ok", FALSE, <<>>)} :
        LET req == ResourceRequest(path, "GET", "", [h \in DOMAIN HeadersOf(name) |->
                                                        <<HeadersOf(name)[h]>>], "")
            result == CallResource(config, req, ans)
        IN  /\ convIn' = [done |-> FALSE, op |-> "resource", req |-> req,
                          ans |-> IF result.reqs = <<>> THEN NoAnswer ELSE ans]
            /\ convOut' = [done |-> TRUE, reqs |-> result.reqs, status |-> result.status]
    /\ UNCHANGED <<config, ctx, served, pc, queries, idx, responses, requests, calls>>

\* handleQuery is called with a query and builds its request; the upstream
\* does not answer
QueryRequest ==
    /\ ~convOut.done
    /\ \E query \in EndpointQueries :
        \E out \in handleQuery(config, query, NoAnswer) :
            /\ convIn' = [done |-> FALSE, op |-> "query", query |-> query, ans |-> NoAnswer]
            /\ convOut' = [done |-> TRUE, reqs |-> out.reqs, handler |-> out.handler]
    /\ UNCHANGED <<config, ctx, served, pc, queries, idx, responses, requests, calls>>

NextEndpoints ==
    \/ CheckHealth
    \/ CallResourceCalled
    \/ QueryRequest

SpecEndpoints == InitEndpoints /\ [][NextEndpoints]_vars

(***************************************************************************)
(* Properties of the entry points (specification SpecEndpoints)            *)
(***************************************************************************)
\* the call made a request; the headers the caller gave it: those of a
\* resource call, those of a REST query
RequestMade == convOut.done /\ convOut.reqs # <<>>

CallerHeader ==
    IF convIn.op = "resource" THEN convIn.req.Headers
    ELSE IF convIn.op = "query" /\ convOut.handler = "rest"
    THEN [h \in {CanonicalKey(n) : n \in DOMAIN convIn.query.JSON.restHeaders} |->
            <<convIn.query.JSON.restHeaders[
                CHOOSE n \in DOMAIN convIn.query.JSON.restHeaders : CanonicalKey(n) = h]>>]
    ELSE EmptyMap

\* header with name set to value
WithHeader(header, name, value) ==
    [h \in DOMAIN header \cup {name} |-> IF h = name THEN value ELSE header[h]]

\* C24: on every request of the three query handlers, the health probe and
\* the three proxies, the credentials are those of one scheme: the bearer
\* token when there is one, else the API key when there is one, else basic
\* auth when user and password are both there, else none; every other
\* header is as the caller gave it
OneCredentialScheme ==
    RequestMade =>
        \A k \in 1..Len(convOut.reqs) :
            convOut.reqs[k].header =
                IF config.BearerToken # ""
                THEN WithHeader(CallerHeader, "Authorization",
                                <<"Bearer ", config.BearerToken>>)
                ELSE IF config.APIKey # ""
                THEN WithHeader(CallerHeader, "X-Api-Key", <<config.APIKey>>)
                ELSE IF config.BasicAuthUser # "" /\ config.BasicAuthPass # ""
                THEN WithHeader(CallerHeader, "Authorization",
                                <<"Basic ", config.BasicAuthUser, ":", config.BasicAuthPass>>)
                ELSE CallerHeader

\* a proxied request of an instance with all three credentials: the bearer
\* token only
OneCredentialSchemeWitness ==
    /\ RequestMade
    /\ convIn.op = "resource"
    /\ convIn.req.Headers = EmptyMap
    /\ config.BearerToken # ""
    /\ config.APIKey # ""
    /\ config.BasicAuthUser # ""
    /\ config.BasicAuthPass # ""
    /\ convOut.reqs[1].header = [h \in {"Authorization"} |-> <<"Bearer ", config.BearerToken>>]

\* the headers of a request that carry credentials
AuthHeaders(req) ==
    {h \in DOMAIN req.header : CanonicalKey(h) \in {"Authorization", "X-Api-Key"}}

\* C25: when the instance has a basic-auth user and password and neither a
\* bearer token nor an API key, every request of a query handler carries
\* the basic-auth credentials and no other header with credentials, also
\* a REST request whose query has headers of its own
BasicAuthOnlyCarriesBasic ==
    (/\ RequestMade
     /\ convIn.op = "query"
     /\ config.BearerToken = ""
     /\ config.APIKey = ""
     /\ config.BasicAuthUser # ""
     /\ config.BasicAuthPass # "") =>
        \A k \in 1..Len(convOut.reqs) :
            /\ AuthHeaders(convOut.reqs[k]) = {"Authorization"}
            /\ convOut.reqs[k].header["Authorization"] =
                    <<"Basic ", config.BasicAuthUser, ":", config.BasicAuthPass>>

\* what the probe got: a transport error, or a status
ProbeFailed == convIn.ans.err

\* the result of CheckHealth, accepted being the statuses on which the probe
\* succeeds: an error and no request without any base URL; otherwise
\* one GET of <metrics URL>/-/healthy exactly when there is a metrics URL,
\* and an error exactly when the probe fails
HealthResult(accepted) ==
    (convOut.done /\ convIn.op = "health") =>
        IF config.PrometheusURL = <<>> /\ config.LokiURL = <<>> /\ config.RESTURL = <<>>
        THEN convOut.status = HealthStatusError /\ convOut.reqs = <<>>
        ELSE /\ Len(convOut.reqs) = (IF config.PrometheusURL # <<>> THEN 1 ELSE 0)
             /\ \A k \in 1..Len(convOut.reqs) :
                    /\ convOut.reqs[k].method = "GET"
                    /\ convOut.reqs[k].url = config.PrometheusURL \o <<"/-/healthy">>
             /\ convOut.status \in {HealthStatusOk, HealthStatusError}
             /\ convOut.status = HealthStatusError <=>
                    /\ convOut.reqs # <<>>
                    /\ ProbeFailed \/ convIn.ans.status \notin accepted

\* C26: without any base URL the health check is an error and makes no
\* request; otherwise it sends one GET to the health path of the metrics
\* backend exactly when the metrics URL is set, is an error when the probe
\* gets a transport error or a status outside 200..299, and is OK when the
\* probe succeeds or none is sent
HealthOkOnAny2xx == HealthResult(200..299)

\* C26, amended: as above, the probe succeeding on status 200 only
HealthOkOn200 == HealthResult({200})

\* a probe answered with 204: the health check is an error
HealthWitness ==
    /\ convOut.done
    /\ convIn.op = "health"
    /\ Len(convOut.reqs) = 1
    /\ ~convIn.ans.err
    /\ convIn.ans.status = 204
    /\ convOut.status = HealthStatusError

\* C30: every header of the instance's restHeaders is on the request of a
\* REST query with its value, unless the query sets a header of that name
ConfiguredRestHeadersSent ==
    (RequestMade /\ convIn.op = "query" /\ convOut.handler = "rest") =>
        \A k \in 1..Len(convOut.reqs) :
            \A h \in DOMAIN config.RESTHeaders :
                IF \E n \in DOMAIN convIn.query.JSON.restHeaders :
                        CanonicalKey(n) = CanonicalKey(h)
                THEN TRUE
                ELSE /\ CanonicalKey(h) \in DOMAIN convOut.reqs[k].header
                     /\ convOut.reqs[k].header[CanonicalKey(h)] = <<config.RESTHeaders[h]>>

(***************************************************************************)
(* QueryData called again and again, its HTTP calls in flight, the         *)
(* caller's context and the client's timeout                               *)
(***************************************************************************)
\* a log query, a REST query, and a REST query without an endpoint
CallQueries ==
    {DataQuery("A", QueryJSON("loki", "", "{job}", <<>>), 1000, 2000, 1000),
     DataQuery("B", QueryJSON("rest", "", "", <<"v1">>), 1000, 2000, 1000),
     DataQuery("C", QueryJSON("rest", "", "", <<>>), 1000, 2000, 1000)}

\* the answers the upstream can give to the request of a query
CallAnswers(query) ==
    IF query.JSON.queryType = QueryTypeREST
    THEN {NoAnswer,
          Answer(200, "{}", TRUE, JObj([f \in {"cpu"} |-> N(420)])),
          Answer(200, "[]", TRUE,
                 JArr(<<JObj([f \in {"a", "b"} |-> IF f = "a" THEN N(10) ELSE S("2.5")])>>))}
    ELSE {NoAnswer, Answer(404, "not found", FALSE, <<>>),
          Answer(200, "{}", TRUE, LokiResponse("success", <<GoodStream>>))}

InitCalls ==
    /\ config = NoCredentials(<<"http://prom">>, <<"http://loki">>, <<"http://rest">>)
    /\ pc = "idle"
    /\ queries = <<>>
    /\ idx = 1
    /\ responses = EmptyMap
    /\ requests = <<>>
    /\ calls = <<>>
    /\ ctx = Background
    /\ served = <<>>
    /\ convIn = NoConversion
    /\ convOut = NoConversion

\* QueryData is called, for the first time or after an earlier call
\* returned, with a context of its own
QueryDataCalled ==
    /\ pc \in {"idle", "returned"}
    /\ Len(served) < MaxCalls
    /\ pc' = "running"
    /\ queries' \in SeqsUpTo(CallQueries, MaxBatch)
    /\ idx' = 1
    /\ responses' = EmptyMap
    /\ requests' = <<>>
    /\ calls' = <<>>
    /\ ctx' = Background
    /\ UNCHANGED <<config, served, convIn, convOut>>

\* the handler of the query at idx returns out: the bookkeeping of one
\* iteration of the loop of QueryData (lines 68-71)
Iteration(ans, out) ==
    /\ calls' = Append(calls, [handler |-> out.handler, ans |-> ans,
                                panic |-> out.panic, res |-> out.res])
    /\ IF out.panic
       THEN /\ pc' = "panicked"
            /\ UNCHANGED <<idx, responses>>
       ELSE /\ pc' = "running"
            /\ idx' = idx + 1
            /\ responses' =
                [r \in DOMAIN responses \cup {queries[idx].RefID} |->
                    IF r = queries[idx].RefID THEN out.res ELSE responses[r]]

\* the handler of the query at idx returns before it makes a request
RejectQuery ==
    /\ pc = "running"
    /\ idx <= Len(queries)
    /\ \E out \in handleQuery(config, queries[idx], NoAnswer) :
        /\ out.reqs = <<>>
        /\ Iteration(NoAnswer, out)
    /\ UNCHANGED <<config, ctx, served, queries, requests, convIn, convOut>>

\* the handler of the query at idx builds its request and calls client.Do
SendRequest ==
    /\ pc = "running"
    /\ idx <= Len(queries)
    /\ \E out \in handleQuery(config, queries[idx], NoAnswer) :
        /\ out.reqs # <<>>
        /\ requests' = Append(requests, [query |-> idx, req |-> out.reqs[1]])
    /\ pc' = "inflight"
    /\ UNCHANGED <<config, ctx, served, queries, idx, responses, calls, convIn, convOut>>

\* client.Do returns with ans and the handler runs to its end; the requests
\* it made after the first are recorded
CallEnds(ans) ==
    \E out \in handleQuery(config, queries[idx], ans) :
        /\ out.reqs # <<>>
        /\ out.reqs[1] = requests[Len(requests)].req
        /\ requests' = requests \o [k \in 1..(Len(out.reqs) - 1) |->
                                        [query |-> idx, req |-> out.reqs[k + 1]]]
        /\ Iteration(ans, out)

\* the upstream answers, or the call fails: at once when the context is
\* cancelled
ReceiveAnswer ==
    /\ pc = "inflight"
    /\ \E ans \in (IF ctx.cancelled THEN {NoAnswer} ELSE CallAnswers(queries[idx])) :
            CallEnds(ans)
    /\ UNCHANGED <<config, ctx, served, queries, convIn, convOut>>

\* the Timeout of the http.Client (30 seconds) ends the call in flight
ClientTimeout ==
    /\ pc = "inflight"
    /\ ~ctx.cancelled
    /\ CallEnds(NoAnswer)
    /\ ctx' = [ctx EXCEPT !.cut = TRUE]
    /\ UNCHANGED <<config, served, queries, convIn, convOut>>

\* the caller cancels the context of the running QueryData call
Cancel ==
    /\ pc \in {"running", "inflight"}
    /\ ~ctx.cancelled
    /\ ctx' = [cancelled |-> TRUE, cut |-> ctx.cut \/ pc = "inflight"]
    /\ UNCHANGED <<config, served, pc, queries, idx, responses, requests, calls,
                   convIn, convOut>>

\* return response, nil (line 73)
ReturnResponse ==
    /\ pc = "running"
    /\ idx > Len(queries)
    /\ pc' = "returned"
    /\ served' = Append(served, {queries[requests[k].query] : k \in 1..Len(requests)})
    /\ UNCHANGED <<config, ctx, queries, idx, responses, requests, calls, convIn, convOut>>

NextCalls ==
    \/ QueryDataCalled
    \/ RejectQuery
    \/ SendRequest
    \/ ReceiveAnswer
    \/ ClientTimeout
    \/ Cancel
    \/ ReturnResponse

SpecCalls == InitCalls /\ [][NextCalls]_vars

\* the loop of QueryData goes on, and client.Do returns: with an answer, an
\* error, or at the latest when the client's Timeout fires
SpecCallsFair ==
    /\ SpecCalls
    /\ WF_vars(RejectQuery)
    /\ WF_vars(SendRequest)
    /\ WF_vars(ReceiveAnswer \/ ClientTimeout)
    /\ WF_vars(ReturnResponse)

(***************************************************************************)
(* Properties of repeated and interrupted calls (SpecCalls, SpecCallsFair) *)
(***************************************************************************)
\* query i has what its handler asks for before it makes a request
PassesPreconditions(i) ==
    /\ queries[i].JSON.ok
    /\ queries[i].JSON.queryType \in KnownTypes
    /\ ~MissingInput(i)

\* the HTTP call of query i is in flight
InFlight(i) == pc = "inflight" /\ i = idx

\* C27: in every call of QueryData each query has at most one request: one
\* when it passes its preconditions, whatever the upstream answers, and
\* none otherwise; so a query handled twice in a batch has a request each
\* time, and so has a query that an earlier call of QueryData sent already
OneRequestPerQuery ==
    /\ \A i \in 1..Len(queries) :
        /\ Cardinality(RequestsOf(i)) <= 1
        /\ (i \in Handled \/ InFlight(i)) =>
                Cardinality(RequestsOf(i)) = (IF PassesPreconditions(i) THEN 1 ELSE 0)
        /\ (i \notin Handled /\ ~InFlight(i)) => RequestsOf(i) = {}
    /\ pc = "returned" => Handled = 1..Len(queries)

\* a second call of QueryData with the same query twice, a query the first
\* call sent: a request for each, the first one failed
RepeatedQueryWitness ==
    /\ Len(served) = 1
    /\ Len(queries) = 2
    /\ queries[1] = queries[2]
    /\ queries[1] \in served[1]
    /\ Handled = {1, 2}
    /\ calls[1].ans.err
    /\ Len(requests) = 2
    /\ requests[1].query = 1
    /\ requests[2].query = 2

\* C28: when the context is cancelled or the client's timeout fires while
\* an HTTP call is in flight, QueryData goes on and returns in the end
CutCallsStillReturn == ctx.cut ~> pc = "returned"

\* C29: the entry of a query depends on the instance's Config, the query
\* and the upstream's answer only: it is the one result its handler can
\* have on them, whatever was handled before it and in whatever order
ResultDependsOnInputsOnly ==
    \A i \in Handled :
        \A out \in handleQuery(config, queries[i], calls[i].ans) :
            /\ out.panic = calls[i].panic
            /\ out.res = calls[i].res

====
